---- MODULE Spec2Model ----
(***************************************************************************)
(* The conversation state machine of the data-transform agent              *)
(* (src/src/agents/transform_agent.py) with the two services it calls      *)
(* (src/src/services/databricks_service.py, src/src/services/             *)
(* llm_service.py).  Chat is one TransformAgent.chat call; Respond hands    *)
(* its response to the interface (src/app.py).  Functions calls the        *)
(* functions of the agent and of the plan generator on their own;           *)
(* Lifecycle follows the connections of the sessions app.py builds.        *)
(*                                                                         *)
(* Text is a TLA+ string; the character at position i of s is              *)
(* SubSeq(s, i, i).  Python's None is the empty tuple and a present        *)
(* optional value x is the one-element tuple <<x>>.                         *)
(***************************************************************************)
EXTENDS Integers, Sequences, FiniteSets, TLC

VARIABLES
    state,                  \* TransformAgent.state: "idle", "awaiting" or "executing"
    pending_transform,      \* TransformAgent.pending_transform
    last_result,            \* TransformAgent.last_result
    last_mentioned_table,   \* TransformAgent.last_mentioned_table
    warehouse,              \* the tables the backend holds
    turn,                   \* the last chat call: message, session before it, calls, response
    pending_executed,       \* the plan now pending was already passed to execute_command
    pending_owner,          \* the conversation whose request stored the pending transform
    given,                  \* the arguments of a function of the agent called on its own
    returned,               \* what that function returned or raised
    agent,                  \* app.agent: the session the process serves, or None
    connection,             \* DatabricksService._connection of every session built so far
    initialized             \* what the last initialize_agent call returned

\* ------------------------------------------------------------------ text

None == <<>>

\* Body(x) for the value x of an expression, computed once: the assignment of
\* the value to a local variable that the statements of Body read
With(x, Body(_)) == CHOOSE r \in {Body(v) : v \in {x}} : TRUE

Some(x) == <<x>>

\* the character at position i of s, "" outside s
CharAt(s, i) == IF i \in 1..Len(s) THEN SubSeq(s, i, i) ELSE ""

\* str.strip() and the regex class \s: the ASCII white space characters
Whitespace == {" ", "\t", "\n", "\r", "\f"}

UpperCase == "ABCDEFGHIJKLMNOPQRSTUVWXYZ"

LowerCase == "abcdefghijklmnopqrstuvwxyz"

lower_char(c) ==
    IF \E i \in 1..Len(UpperCase) : CharAt(UpperCase, i) = c
    THEN CharAt(LowerCase, CHOOSE i \in 1..Len(UpperCase) : CharAt(UpperCase, i) = c)
    ELSE c

\* Python: s.lower()
RECURSIVE str_lower(_)
str_lower(s) == IF s = "" THEN "" ELSE lower_char(Head(s)) \o str_lower(Tail(s))

\* Python: s.upper()
RECURSIVE str_upper(_)
str_upper(s) ==
    IF s = "" THEN ""
    ELSE (IF \E i \in 1..Len(LowerCase) : CharAt(LowerCase, i) = Head(s)
          THEN CharAt(UpperCase, CHOOSE i \in 1..Len(LowerCase) : CharAt(LowerCase, i) = Head(s))
          ELSE Head(s)) \o str_upper(Tail(s))

RECURSIVE lstrip(_)
lstrip(s) == IF s # "" /\ Head(s) \in Whitespace THEN lstrip(Tail(s)) ELSE s

RECURSIVE rstrip(_)
rstrip(s) ==
    IF s # "" /\ CharAt(s, Len(s)) \in Whitespace
    THEN rstrip(SubSeq(s, 1, Len(s) - 1))
    ELSE s

\* Python: s.strip()
str_strip(s) == rstrip(lstrip(s))

\* Python: s.startswith(p)
startswith(s, p) == Len(p) <= Len(s) /\ SubSeq(s, 1, Len(p)) = p

\* p occurs in s starting at position i
OccursAt(s, p, i) == i >= 1 /\ i + Len(p) - 1 <= Len(s) /\ SubSeq(s, i, i + Len(p) - 1) = p

\* Python: p in s
Contains(s, p) == \E i \in 1..(Len(s) + 1) : OccursAt(s, p, i)

\* least position >= from at which p occurs in s, 0 if none
Find(s, p, from) ==
    IF \E i \in from..(Len(s) + 1) : OccursAt(s, p, i)
    THEN CHOOSE i \in from..(Len(s) + 1) :
            OccursAt(s, p, i) /\ \A j \in from..(i - 1) : ~OccursAt(s, p, j)
    ELSE 0

\* Python: s.replace(old, new), old non-empty
RECURSIVE replace(_, _, _)
replace(s, old, new) ==
    With(Find(s, old, 1), LAMBDA i :
    IF i = 0 THEN s
    ELSE SubSeq(s, 1, i - 1) \o new \o replace(SubSeq(s, i + Len(old), Len(s)), old, new))

\* Python: s.split(sep), sep non-empty: the list of the pieces
RECURSIVE split(_, _)
split(s, sep) ==
    With(Find(s, sep, 1), LAMBDA i :
    IF i = 0 THEN <<s>>
    ELSE <<SubSeq(s, 1, i - 1)>> \o split(SubSeq(s, i + Len(sep), Len(s)), sep))

\* --------------------------------------------------------- the inputs

\* the user messages
Messages ==
    { "confirm", " YES ", "y", "Execute", "run",
      "cancel", "No", "n", "abort",
      "show sql", "SQL",
      "yes please", "",
      "help", "show tables", "status",
      "describe raw_customers", "desc silver.nope", "describe nope",
      "describe silver.raw_customers", "Describe sales_summary",
      "What columns are in raw_customers?", "how many rows does it have?",
      "which tables hold raw_customers?",
      "Clean raw_customers, remove nulls", " clean it up ", "clean it", "dedupe everything",
      "aggregate this table", "fix main.orders", "process staging.events",
      "raw_customers", "hello there" }

\* the tables the warehouse may hold, per schema
Catalogs ==
    { [bronze |-> <<"raw_customers">>, silver |-> <<>>, gold |-> <<>>],
      [bronze |-> <<"raw_customers", "stg_orders">>, silver |-> <<"raw_customers">>,
       gold |-> <<"sales_summary">>, staging |-> <<"events">>] }

\* the schemas in the order the agent's loops visit them
Schemas == <<"bronze", "silver", "gold">>

\* the sets of schemas whose listing may fail during a turn
DownSets == { {}, {"bronze"}, {"silver", "gold"}, {"bronze", "silver", "gold"} }

\* the tables of a catalog, as (schema, table) pairs
TablesOf(tables) ==
    UNION {{<<schema, tables[schema][i]>> : i \in DOMAIN tables[schema]} : schema \in DOMAIN tables}

TableNames == UNION {{p[2] : p \in TablesOf(tables)} : tables \in Catalogs}

\* ------------------------------------------------- text, computed once

\* The text functions are applied to few texts, again and again; their values
\* on the texts of the inputs are kept in tables and looked up there.  Outside
\* the tables the function itself is computed.

\* the argument of "describe <ref>" in chat: message.split(" ", 1)[1].strip()
describe_argument_of(message) ==
    str_strip(SubSeq(message, Find(message, " ", 1) + 1, Len(message)))

StrippedMessages == {str_strip(m) : m \in Messages}

References ==
    {describe_argument_of(m) : m \in {x \in StrippedMessages : Contains(x, " ")}}
    \cup UNION {{p[1] \o "." \o p[2] : p \in TablesOf(tables)} : tables \in Catalogs}

stripped == [s \in Messages |-> str_strip(s)] @@ <<>>

strip(s) == IF s \in DOMAIN stripped THEN stripped[s] ELSE str_strip(s)

lowered == [s \in StrippedMessages \cup TableNames |-> str_lower(s)] @@ <<>>

lower(s) == IF s \in DOMAIN lowered THEN lowered[s] ELSE str_lower(s)

described == [s \in StrippedMessages |-> IF Contains(s, " ") THEN describe_argument_of(s) ELSE ""] @@ <<>>

describe_argument(message) ==
    IF message \in DOMAIN described THEN described[message] ELSE describe_argument_of(message)

\* the backquote character, which a TLA+ string cannot hold: "^" stands for it
Backtick == "^"

\* the parts of a table reference in _describe_table: table_ref.replace("`", "").split(".")
reference_parts_of(table_ref) == split(replace(table_ref, Backtick, ""), ".")

parted == [ref \in References |-> reference_parts_of(ref)] @@ <<>>

reference_parts(table_ref) ==
    IF table_ref \in DOMAIN parted THEN parted[table_ref] ELSE reference_parts_of(table_ref)

\* the phrase lists of the agent
column_phrases ==
    {"column", "columns", "field", "fields", "schema", "what are the", "what is in", "structure"}

data_phrases ==
    {"how many rows", "row count", "how much data", "sample", "show me data", "what does",
     "look like", "preview"}

tables_phrases ==
    {"what tables", "which tables", "available tables", "list tables", "show tables", "tables do"}

capability_phrases == {"what can you", "how do i", "how to", "help me"}

question_references == {"this table", "that table", "the table", "it"}

transform_references == {"this table", "that table", "the table", "it "}

gold_words == {"aggregate", "summary", "report", "metrics"}

action_words == {"clean", "fix", "update", "change", "modify", "process"}

PhraseSets ==
    {column_phrases, data_phrases, tables_phrases, capability_phrases, question_references,
     transform_references, gold_words, action_words, {"gold"}, {"silver"}}

\* Python: any(phrase in text for phrase in phrases)
any_in(text, phrases) == \E phrase \in phrases : Contains(text, phrase)

LoweredMessages == {str_lower(s) : s \in StrippedMessages}

contained == [text \in LoweredMessages, phrases \in PhraseSets |-> any_in(text, phrases)] @@ <<>>

ContainsAny(text, phrases) ==
    IF text \in LoweredMessages /\ phrases \in PhraseSets
    THEN contained[text, phrases]
    ELSE any_in(text, phrases)

\* ------------------------------------------------------- regex fragments

\* the regex class \w
WordChars == "abcdefghijklmnopqrstuvwxyzABCDEFGHIJKLMNOPQRSTUVWXYZ0123456789_"

IsWord(c) == c # "" /\ Contains(WordChars, c)

IsSpace(c) == c \in Whitespace

\* '.' matches every character but the newline: s[from..to] holds none
NoNewline(s, from, to) == \A k \in from..to : CharAt(s, k) # "\n"

\* p\s matches at position i
LitSpaceAt(s, p, i) == OccursAt(s, p, i) /\ IsSpace(CharAt(s, i + Len(p)))

\* re.search(r'p\s', s)
SearchLitSpace(s, p) == \E i \in 1..Len(s) : LitSpaceAt(s, p, i)

\* re.search(r'^p\s', s)
StartLitSpace(s, p) == LitSpaceAt(s, p, 1)

\* (a)\s.*(b) matches at position i, for a in as and b in bs
GapAt(s, as, bs, i) ==
    \E a \in as : LitSpaceAt(s, a, i) /\
        \E b \in bs : \E j \in (i + Len(a) + 1)..(Len(s) + 1) :
            OccursAt(s, b, j) /\ NoNewline(s, i + Len(a) + 1, j - 1)

\* re.search(r'(a)\s.*(b)', s)
SearchGap(s, as, bs) == \E i \in 1..Len(s) : GapAt(s, as, bs, i)

\* re.search(r'\?$', s): '$' is the end of the text or the place before a final newline
EndsWithQuestionMark(s) ==
    \/ (Len(s) >= 1 /\ CharAt(s, Len(s)) = "?")
    \/ (Len(s) >= 2 /\ CharAt(s, Len(s)) = "\n" /\ CharAt(s, Len(s) - 1) = "?")

\* ------------------------------------------------------ intent detection

\* the results of re.search for the entries of question_patterns, in order
question_patterns(m) ==
    << StartLitSpace(m, "what"),
       StartLitSpace(m, "which"),
       StartLitSpace(m, "how"),
       \E w \in {"tell", "show", "list", "explain"} : startswith(m, "can you " \o w),
       startswith(m, "tell me"),
       startswith(m, "show me"),
       StartLitSpace(m, "list"),
       GapAt(m, {"do", "does"}, {"?"}, 1),
       GapAt(m, {"is"}, {"?"}, 1),
       GapAt(m, {"are"}, {"?"}, 1),
       EndsWithQuestionMark(m),
       \E a \in {"are", "is"} : \E b \in {"the", "in"} : Contains(m, "what " \o a \o " " \o b),
       Contains(m, "how many"),
       Contains(m, "tell me about"),
       Contains(m, "explain"),
       Contains(m, "describe") >>

\* the results of re.search for the entries of transform_patterns, in order
transform_patterns(m) ==
    << SearchLitSpace(m, "clean"),
       SearchLitSpace(m, "transform"),
       SearchLitSpace(m, "convert"),
       SearchLitSpace(m, "create"),
       SearchGap(m, {"remove"}, {"null", "duplicate", "dupe"}),
       Contains(m, "dedupe"),
       Contains(m, "deduplicate"),
       Contains(m, "standardize"),
       Contains(m, "normalize"),
       Contains(m, "aggregate"),
       \E w \in {"to", "into"} : Contains(m, "save " \o w),
       \E w \in {"to", "into"} : Contains(m, "move " \o w),
       SearchLitSpace(m, "filter"),
       SearchGap(m, {"remove", "drop", "delete"}, {"rows"}),
       SearchGap(m, {"add", "create"}, {"column"}),
       SearchLitSpace(m, "rename"),
       SearchLitSpace(m, "cast"),
       SearchLitSpace(m, "join"),
       SearchLitSpace(m, "merge") >>

AnyTrue(flags) == \E k \in DOMAIN flags : flags[k]

\* ---------------------------------------------------------- the backend

\* The backend's answers during one turn.  tables: the tables SHOW TABLES
\* lists per schema; down: the schemas whose listing raises; fetch: where the
\* schema/sample fetch raises, if at all; count: the COUNT(*) the backend reports.
\* A schema the catalog does not hold cannot be listed.

\* the result of a call: its value, the backend/LLM calls it made, the error it raised
Ok(val, calls) == [val |-> val, calls |-> calls, err |-> None]

Raise(msg, calls) == [val |-> None, calls |-> calls, err |-> Some(msg)]

\* a call of a service method, with its argument and whether it returned
Call(op, arg, ok) == [op |-> op, arg |-> arg, ok |-> ok]

\* DatabricksService.list_tables
list_tables(db, schema) ==
    IF schema \in DOMAIN db.tables /\ schema \notin db.down
    THEN Ok(db.tables[schema], <<Call("list_tables", schema, TRUE)>>)
    ELSE Raise("SHOW TABLES failed: " \o schema, <<Call("list_tables", schema, FALSE)>>)

\* DatabricksService.table_exists
table_exists(db, table, schema) ==
    With(list_tables(db, schema), LAMBDA r :
    IF r.err # None THEN r
    ELSE Ok(\E i \in DOMAIN r.val : r.val[i] = table, r.calls))

\* ----------------------------------------------------- table resolution

\* the two tests of the loop body of _identify_table
table_matches(table, request_lower) ==
    \/ Contains(request_lower, lower(table))
    \/ With(replace(replace(lower(table), "raw_", ""), "stg_", ""), LAMBDA clean_name :
            Contains(request_lower, clean_name) /\ Len(clean_name) > 2)

\* the first table of the list that matches, as a set of at most one index
first_match(tables, request_lower) ==
    {i \in DOMAIN tables :
        /\ table_matches(tables[i], request_lower)
        /\ \A j \in 1..(i - 1) : ~table_matches(tables[j], request_lower)}

\* re.search(r'(\w+)\.(\w+)', s): the positions of the dots that have a word
\* character on both sides
dots(s) == {d \in 1..Len(s) : CharAt(s, d) = "." /\ IsWord(CharAt(s, d - 1)) /\ IsWord(CharAt(s, d + 1))}

\* the start of the run of word characters that ends at position e
run_start(s, e) == CHOOSE i \in 1..e :
    (\A k \in i..e : IsWord(CharAt(s, k))) /\ ~IsWord(CharAt(s, i - 1))

\* the end of the run of word characters that starts at position b
run_end(s, b) == CHOOSE j \in b..Len(s) :
    (\A k \in b..j : IsWord(CharAt(s, k))) /\ ~IsWord(CharAt(s, j + 1))

\* the groups (schema, table) of the leftmost match, None without a match
dotted_reference(s) ==
    With(dots(s), LAMBDA found :
    IF found = {} THEN None
    ELSE With(CHOOSE x \in found : \A y \in found : x <= y, LAMBDA d :
         Some(<<SubSeq(s, run_start(s, d - 1), d - 1), SubSeq(s, d + 1, run_end(s, d + 1))>>)))

\* the tail of _identify_table: the explicit schema.table reference
identify_dotted(db, user_request, calls) ==
    With(dotted_reference(user_request), LAMBDA match :
    IF match = None THEN Ok(None, calls)
    ELSE With(match[1][1], LAMBDA schema :
         With(match[1][2], LAMBDA table :
         With(table_exists(db, table, schema), LAMBDA r :
         IF r.err # None THEN Raise(r.err[1], calls \o r.calls)
         ELSE IF r.val THEN Ok(Some(<<table, schema>>), calls \o r.calls)
         ELSE Ok(None, calls \o r.calls)))))

\* the loop of _identify_table without its return: every schema from the k-th
\* on is listed and the match of the last one that has a match is kept
identify_last_match(db, user_request, k, calls) ==
    With({j \in k..Len(Schemas) :
            /\ list_tables(db, Schemas[j]).err = None
            /\ first_match(list_tables(db, Schemas[j]).val, lower(user_request)) # {}},
         LAMBDA hits :
    With(calls \o [j \in 1..(Len(Schemas) - k + 1) |-> list_tables(db, Schemas[k + j - 1]).calls[1]],
         LAMBDA listed :
    IF hits = {} THEN identify_dotted(db, user_request, listed)
    ELSE With(CHOOSE j \in hits : \A i \in hits : i <= j, LAMBDA last :
         With(list_tables(db, Schemas[last]).val, LAMBDA tables :
         Ok(Some(<<tables[CHOOSE i \in first_match(tables, lower(user_request)) : TRUE],
                   Schemas[last]>>),
            listed)))))

\* the loop of _identify_table from the k-th schema on
RECURSIVE identify_from(_, _, _, _)
identify_from(db, user_request, k, calls) ==
    IF k > Len(Schemas) THEN identify_dotted(db, user_request, calls)
    ELSE With(list_tables(db, Schemas[k]), LAMBDA r :
         IF r.err # None THEN identify_from(db, user_request, k + 1, calls \o r.calls)
         ELSE With(first_match(r.val, lower(user_request)), LAMBDA hit :
              IF hit # {}
              THEN Ok(Some(<<r.val[CHOOSE i \in hit : TRUE], Schemas[k]>>), calls \o r.calls)
              ELSE identify_from(db, user_request, k + 1, calls \o r.calls)))

\* TransformAgent._identify_table: val is Some(<<table, schema>>) or None
identify_table_in(db, user_request) == identify_from(db, user_request, 1, <<>>)

identified ==
    [tables \in Catalogs, down \in DownSets, text \in StrippedMessages |->
        identify_table_in([tables |-> tables, down |-> down], text)] @@ <<>>

identify_table(db, user_request) ==
    IF db.tables \in Catalogs /\ db.down \in DownSets /\ user_request \in StrippedMessages
    THEN identified[db.tables, db.down, user_request]
    ELSE identify_table_in(db, user_request)

\* _detect_intent with the transform patterns tried before the question patterns
detect_transform_first(db, message) ==
    With(lower(message), LAMBDA message_lower :
    IF AnyTrue(transform_patterns(message_lower)) THEN Ok("transform", <<>>)
    ELSE IF AnyTrue(question_patterns(message_lower)) THEN Ok("question", <<>>)
    ELSE With(identify_table(db, message), LAMBDA r :
         IF r.err # None THEN r
         ELSE IF r.val # None /\ ContainsAny(message_lower, action_words)
              THEN Ok("transform", r.calls)
              ELSE Ok("unclear", r.calls)))

\* TransformAgent._detect_intent
detect_intent_in(db, message) ==
    With(lower(message), LAMBDA message_lower :
    IF AnyTrue(question_patterns(message_lower)) THEN Ok("question", <<>>)
    ELSE IF AnyTrue(transform_patterns(message_lower)) THEN Ok("transform", <<>>)
    ELSE With(identify_table(db, message), LAMBDA r :
         IF r.err # None THEN r
         ELSE IF r.val # None /\ ContainsAny(message_lower, action_words)
              THEN Ok("transform", r.calls)
              ELSE Ok("unclear", r.calls)))

detected ==
    [tables \in Catalogs, down \in DownSets, text \in StrippedMessages |->
        detect_intent_in([tables |-> tables, down |-> down], text)] @@ <<>>

\* _detect_intent reading the session: a message without a table that refers
\* to the table mentioned before counts as naming it
detect_with_context(db, message) ==
    With(detect_intent_in(db, message), LAMBDA r :
    IF /\ r.err = None
       /\ r.val = "unclear"
       /\ last_mentioned_table # None
       /\ ContainsAny(lower(message), transform_references)
       /\ ContainsAny(lower(message), action_words)
    THEN Ok("transform", r.calls)
    ELSE r)

\* TransformAgent._detect_intent, its answers to the messages of the inputs looked up
detect_intent(db, message) ==
    IF db.tables \in Catalogs /\ db.down \in DownSets /\ message \in StrippedMessages
    THEN detected[db.tables, db.down, message]
    ELSE detect_intent_in(db, message)

\* --------------------------------------------------- schema and samples

\* settings.catalog
catalog_name == "main"

TableKnown(db, table, schema) ==
    schema \in DOMAIN db.tables /\ \E i \in DOMAIN db.tables[schema] : db.tables[schema][i] = table

\* TableSchema.full_name
full_name(ts) == ts.catalog \o "." \o ts.schema \o "." \o ts.table

\* DatabricksService.get_table_schema: DESCRIBE TABLE, then SELECT COUNT(*)
get_table_schema(db, table, schema) ==
    With(schema \o "." \o table, LAMBDA name :
    IF db.fetch = "schema_fail" \/ ~TableKnown(db, table, schema)
    THEN Raise("DESCRIBE TABLE failed: " \o name, <<Call("get_table_schema", name, FALSE)>>)
    ELSE Ok([catalog |-> catalog_name, schema |-> schema, table |-> table,
             columns |-> db.columns, row_count |-> db.count],
            <<Call("get_table_schema", name, TRUE)>>))

\* DatabricksService.get_sample_data
get_sample_data(db, table, schema, limit) ==
    With(schema \o "." \o table, LAMBDA name :
    IF db.fetch = "sample_fail" \/ ~TableKnown(db, table, schema)
    THEN Raise("SELECT failed: " \o name, <<Call("get_sample_data", name, FALSE)>>)
    ELSE Ok([columns |-> db.columns, limit |-> limit], <<Call("get_sample_data", name, TRUE)>>))

\* DatabricksService.execute_command
execute_command(db, sql) ==
    IF db.exec = "command_fail"
    THEN Raise("SQL command failed", <<Call("execute_command", sql, FALSE)>>)
    ELSE Ok(TRUE, <<Call("execute_command", sql, TRUE)>>)

\* DatabricksService.execute_query, as _execute_pending_transform uses it
execute_query(db, sql) ==
    IF db.exec = "count_fail"
    THEN Raise("SQL query failed", <<Call("execute_query", sql, FALSE)>>)
    ELSE Ok([rows |-> db.count_rows], <<Call("execute_query", sql, TRUE)>>)

\* ------------------------------------------------------- plan generation

\* JSON values of the LLM reply, tagged with their type
JNull == [t |-> "null"]

JInt(n) == [t |-> "int", v |-> n]

JStr(x) == [t |-> "str", v |-> x]

JList(xs) == [t |-> "list", v |-> xs]

JObj(f) == [t |-> "object", v |-> f]

\* Python's truth value of a JSON value
Truthy(j) ==
    CASE j.t = "null" -> FALSE
      [] j.t = "int" -> j.v # 0
      [] j.t = "str" -> j.v # ""
      [] j.t = "list" -> j.v # <<>>
      [] OTHER -> TRUE

\* dict.get(key, default)
Get(data, key, default) == IF key \in DOMAIN data THEN data[key] ELSE default

\* _call_claude calling the API a second time when the first call raises
call_claude_again(llm) ==
    IF llm.reply = None
    THEN Raise("LLM backend unavailable",
               <<Call("call_claude", "prompt", FALSE), Call("call_claude", "prompt", FALSE)>>)
    ELSE Ok(llm.reply[1], <<Call("call_claude", "prompt", TRUE)>>)

\* LLMService._call_claude: the reply text, or the API error
call_claude(llm) ==
    IF llm.reply = None
    THEN Raise("LLM backend unavailable", <<Call("call_claude", "prompt", FALSE)>>)
    ELSE Ok(llm.reply[1], <<Call("call_claude", "prompt", TRUE)>>)

\* _parse_json_response answering a reply it cannot parse with an empty plan
parse_lenient(response) ==
    IF response.parses THEN Ok(response.data, <<>>)
    ELSE Ok(JObj([target_table |-> "", sql |-> ""]), <<>>)

\* LLMService._parse_json_response: the JSON value the reply holds, or ValueError
parse_json_response(response) ==
    IF response.parses THEN Ok(response.data, <<>>)
    ELSE Raise("Failed to parse JSON response", <<>>)

\* LLMService.generate_transform_sql
generate_transform_sql(llm, user_request, table_schema, sample_data, target_schema, catalog) ==
    With(call_claude(llm), LAMBDA response :
    IF response.err # None THEN response
    ELSE
    With(parse_json_response(response.val), LAMBDA parsed :
    IF parsed.err # None THEN Raise(parsed.err[1], response.calls)
    ELSE
    IF parsed.val.t # "object" THEN Raise("TypeError: indices must be integers", response.calls)
    ELSE
    With(parsed.val.v, LAMBDA data :
    With("estimated_impact" \in DOMAIN data, LAMBDA has_impact :
    IF has_impact /\ data["estimated_impact"].t # "object"
    THEN Raise("AttributeError: get", response.calls)
    ELSE IF "target_table" \notin DOMAIN data THEN Raise("KeyError: target_table", response.calls)
    ELSE IF "sql" \notin DOMAIN data THEN Raise("KeyError: sql", response.calls)
    ELSE Ok([target_table |-> data["target_table"],
             sql |-> data["sql"],
             transformations_applied |-> Get(data, "transformations_applied", JList(<<>>)),
             explanation |-> Get(data, "explanation", JStr("")),
             estimated_rows_after |->
                 IF has_impact
                 THEN Get(data["estimated_impact"].v, "estimated_rows_after", JNull)
                 ELSE JNull,
             columns_modified |->
                 IF has_impact
                 THEN Get(data["estimated_impact"].v, "columns_modified", JNull)
                 ELSE JNull],
            response.calls)))))

\* ------------------------------------------------- the text of a reply

\* The plan generator above takes a reply by what _parse_json_response makes
\* of it.  The definitions below follow that function on the text of the reply.

\* the code fence of Markdown, three backquotes
Fence == Backtick \o Backtick \o Backtick

\* the text between the first fence and the next one, if the reply has a fence
unfenced(text) ==
    IF Contains(text, Fence \o "json") THEN split(split(text, Fence \o "json")[2], Fence)[1]
    ELSE IF Contains(text, Fence) THEN split(split(text, Fence)[2], Fence)[1]
    ELSE text

\* re.search(r'\{', text): the text from its first opening brace on
from_first_brace(text) ==
    IF startswith(text, "{") \/ Find(text, "{", 1) = 0 THEN text
    ELSE SubSeq(text, Find(text, "{", 1), Len(text))

\* the matches of r'\}(?!.*\})': the closing braces that no closing brace
\* follows on the same line, "." matching every character but the newline
closing_braces(text) ==
    {p \in 1..Len(text) :
        /\ CharAt(text, p) = "}"
        /\ ~\E q \in (p + 1)..Len(text) :
              CharAt(text, q) = "}" /\ \A k \in (p + 1)..(q - 1) : CharAt(text, k) # "\n"}

\* re.search takes the leftmost match: the text up to that brace
to_last_brace(text) ==
    IF (text # "" /\ CharAt(text, Len(text)) = "}") \/ closing_braces(text) = {} THEN text
    ELSE SubSeq(text, 1, CHOOSE p \in closing_braces(text) : \A q \in closing_braces(text) : p <= q)

\* json.loads, for the JSON texts whose values are objects, strings without
\* escape sequences and unsigned integers.  A parse step returns the value read
\* and the position after it.
Digits == "0123456789"

Read(val, next) == [ok |-> TRUE, val |-> val, next |-> next]

NotRead == [ok |-> FALSE, val |-> JNull, next |-> 0]

skip_space(s, i) ==
    CHOOSE j \in i..(Len(s) + 1) :
        /\ CharAt(s, j) \notin {" ", "\t", "\n", "\r"}
        /\ \A k \in i..(j - 1) : CharAt(s, k) \in {" ", "\t", "\n", "\r"}

\* the string that begins with the quote at position i
read_string(s, i) ==
    IF CharAt(s, i) # "\"" \/ Find(s, "\"", i + 1) = 0 THEN NotRead
    ELSE With(Find(s, "\"", i + 1), LAMBDA q :
         IF \E k \in (i + 1)..(q - 1) : CharAt(s, k) \in {"\n", "\t", "\r", "\f", "\\"}
         THEN NotRead
         ELSE Read(SubSeq(s, i + 1, q - 1), q + 1))

\* the integer whose digits begin at position i
RECURSIVE read_digits(_, _, _)
read_digits(s, i, n) ==
    IF Find(Digits, CharAt(s, i), 1) = 0 \/ CharAt(s, i) = "" THEN Read(JInt(n), i)
    ELSE read_digits(s, i + 1, 10 * n + Find(Digits, CharAt(s, i), 1) - 1)

RECURSIVE read_value(_, _)
RECURSIVE read_members(_, _, _)

\* the members of an object from position i on, after those read into members
read_members(s, i, members) ==
    With(read_string(s, i), LAMBDA key :
    IF ~key.ok \/ CharAt(s, skip_space(s, key.next)) # ":" THEN NotRead
    ELSE With(read_value(s, skip_space(s, skip_space(s, key.next) + 1)), LAMBDA value :
         IF ~value.ok THEN NotRead
         ELSE With(skip_space(s, value.next), LAMBDA j :
              IF CharAt(s, j) = "}" THEN Read(JObj((key.val :> value.val) @@ members), j + 1)
              ELSE IF CharAt(s, j) = ","
              THEN read_members(s, skip_space(s, j + 1), (key.val :> value.val) @@ members)
              ELSE NotRead)))

\* the value that begins at position i
read_value(s, i) ==
    IF CharAt(s, i) = "{"
    THEN IF CharAt(s, skip_space(s, i + 1)) = "}" THEN Read(JObj(<<>>), skip_space(s, i + 1) + 1)
         ELSE read_members(s, skip_space(s, i + 1), <<>>)
    ELSE IF CharAt(s, i) = "\""
    THEN With(read_string(s, i), LAMBDA str :
         IF str.ok THEN Read(JStr(str.val), str.next) ELSE NotRead)
    ELSE IF CharAt(s, i) # "" /\ Find(Digits, CharAt(s, i), 1) # 0 THEN read_digits(s, i, 0)
    ELSE NotRead

\* json.loads(text): one value with nothing but white space around it
json_loads(text) ==
    With(read_value(text, skip_space(text, 1)), LAMBDA read :
    IF read.ok /\ skip_space(text, read.next) = Len(text) + 1 THEN Ok(read.val, <<>>)
    ELSE Raise("JSONDecodeError", <<>>))

\* LLMService._parse_json_response on the text of the reply
parse_json_text(response) ==
    With(json_loads(to_last_brace(from_first_brace(str_strip(unfenced(str_strip(response)))))),
         LAMBDA loaded :
    IF loaded.err # None THEN Raise("Failed to parse JSON response", <<>>) ELSE loaded)

\* _determine_target_layer with the source schema consulted before the text
layer_by_source_first(user_request, source_schema) ==
    IF source_schema = "bronze" THEN "silver"
    ELSE IF source_schema = "silver" THEN "gold"
    ELSE With(lower(user_request), LAMBDA request_lower :
         IF ContainsAny(request_lower, {"gold"}) THEN "gold"
         ELSE IF ContainsAny(request_lower, {"silver"}) THEN "silver"
         ELSE IF ContainsAny(request_lower, gold_words) THEN "gold"
         ELSE "silver")

\* TransformAgent._determine_target_layer
determine_target_layer(user_request, source_schema) ==
    With(lower(user_request), LAMBDA request_lower :
    IF ContainsAny(request_lower, {"gold"}) THEN "gold"
    ELSE IF ContainsAny(request_lower, {"silver"}) THEN "silver"
    ELSE IF ContainsAny(request_lower, gold_words) THEN "gold"
    ELSE IF source_schema = "bronze" THEN "silver"
    ELSE IF source_schema = "silver" THEN "gold"
    ELSE "silver")

\* ------------------------------------------------------------ handlers

\* A handler maps the session s = [state, pending_transform, last_result,
\* last_mentioned_table] to the session after it, the calls it made and
\* its response; raised is TRUE when it raised instead of returning.

Resp(kind, detail) == [kind |-> kind, detail |-> detail]

Return(s, calls, response) == [s |-> s, calls |-> calls, response |-> response, raised |-> FALSE]

Raised(s, calls, msg) == [s |-> s, calls |-> calls, response |-> Resp("raised", <<msg>>), raised |-> TRUE]

\* the calls of the loop "for schema in [...]: try: list_tables(schema)"
RECURSIVE list_all_calls(_, _)
list_all_calls(db, k) ==
    IF k > Len(Schemas) THEN <<>>
    ELSE list_tables(db, Schemas[k]).calls \o list_all_calls(db, k + 1)

\* the "schema.table" names that loop collects, failing schemas skipped
RECURSIVE listed_names(_, _)
listed_names(db, k) ==
    IF k > Len(Schemas) THEN <<>>
    ELSE With(list_tables(db, Schemas[k]), LAMBDA r :
         (IF r.err # None THEN <<>>
          ELSE [i \in DOMAIN r.val |-> Schemas[k] \o "." \o r.val[i]])
         \o listed_names(db, k + 1))

\* TransformAgent._show_help
show_help(s) == Return(s, <<>>, Resp("help", <<>>))

\* TransformAgent._handle_generic_question
handle_generic_question(s, calls) == Return(s, calls, Resp("generic_question", <<>>))

\* TransformAgent._ask_which_table
ask_which_table(s, db, action, calls) ==
    Return(s, calls \o list_all_calls(db, 1), Resp("which_table", <<action>> \o listed_names(db, 1)))

\* an unresolved table surfacing as an exception instead of a question
clarification_raised(s, db, calls) == Raised(s, calls, "no table identified")

\* TransformAgent._ask_for_table_clarification
ask_for_table_clarification(s, db, calls) ==
    With(listed_names(db, 1), LAMBDA available :
    Return(s, calls \o list_all_calls(db, 1),
           IF available # <<>> THEN Resp("clarify_table", available) ELSE Resp("no_tables", <<>>)))

\* TransformAgent._describe_table_columns
describe_table_columns(s, db, table, schema, calls) ==
    With(get_table_schema(db, table, schema), LAMBDA ts :
    IF ts.err # None
    THEN Return(s, calls \o ts.calls, Resp("error_columns", ts.err))
    ELSE Return(s, calls \o ts.calls,
                Resp("columns", <<schema \o "." \o table, ToString(ts.val.row_count)>>)))

\* TransformAgent._show_table_preview
show_table_preview(s, db, table, schema, calls) ==
    With(get_table_schema(db, table, schema), LAMBDA ts :
    IF ts.err # None
    THEN Return(s, calls \o ts.calls, Resp("error_preview", ts.err))
    ELSE With(get_sample_data(db, table, schema, 5), LAMBDA sample :
         IF sample.err # None
         THEN Return(s, calls \o ts.calls \o sample.calls, Resp("error_preview", sample.err))
         ELSE Return(s, calls \o ts.calls \o sample.calls,
                     Resp("preview", <<schema \o "." \o table, ToString(ts.val.row_count)>>))))

\* the rows of one schema in _list_tables, from its i-th table on: the row
\* count is left out when get_table_schema raises
RECURSIVE table_rows(_, _, _, _)
table_rows(db, schema, tables, i) ==
    IF i > Len(tables) THEN [calls |-> <<>>, lines |-> <<>>]
    ELSE With(get_table_schema(db, tables[i], schema), LAMBDA row :
         With(table_rows(db, schema, tables, i + 1), LAMBDA more :
         With(schema \o "." \o tables[i], LAMBDA name :
         [calls |-> row.calls \o more.calls,
          lines |-> <<IF row.err # None THEN name
                      ELSE name \o " (" \o ToString(row.val.row_count) \o " rows)">>
                    \o more.lines])))

\* the schema loop of _list_tables giving up at the first schema whose listing
\* raises
RECURSIVE list_rows_until_failure(_, _)
list_rows_until_failure(db, k) ==
    IF k > Len(Schemas) THEN [calls |-> <<>>, lines |-> <<>>]
    ELSE With(list_tables(db, Schemas[k]), LAMBDA r :
         IF r.err # None THEN [calls |-> r.calls, lines |-> <<>>]
         ELSE With(list_rows_until_failure(db, k + 1), LAMBDA rest :
              IF r.val = <<>> THEN [calls |-> r.calls \o rest.calls, lines |-> rest.lines]
              ELSE With(table_rows(db, Schemas[k], r.val, 1), LAMBDA rows :
                   [calls |-> r.calls \o rows.calls \o rest.calls,
                    lines |-> <<"### " \o str_upper(Schemas[k])>> \o rows.lines \o <<"">>
                              \o rest.lines])))

\* the lines of the schema loop of _list_tables from the k-th schema on: for a
\* schema that lists tables its heading, a line per table and an empty line
RECURSIVE list_rows(_, _)
list_rows(db, k) ==
    IF k > Len(Schemas) THEN [calls |-> <<>>, lines |-> <<>>]
    ELSE With(list_tables(db, Schemas[k]), LAMBDA r :
         With(list_rows(db, k + 1), LAMBDA rest :
         IF r.err # None \/ r.val = <<>>
         THEN [calls |-> r.calls \o rest.calls, lines |-> rest.lines]
         ELSE With(table_rows(db, Schemas[k], r.val, 1), LAMBDA rows :
              [calls |-> r.calls \o rows.calls \o rest.calls,
               lines |-> <<"### " \o str_upper(Schemas[k])>> \o rows.lines \o <<"">>
                         \o rest.lines])))

\* TransformAgent._list_tables
show_tables(s, db, calls) ==
    With(list_rows(db, 1), LAMBDA rows :
    Return(s, calls \o rows.calls, Resp("tables", rows.lines)))

\* the probe of _describe_table without its break: every schema is probed and
\* the last one that holds the table is kept
RECURSIVE probe_every_schema(_, _, _, _)
probe_every_schema(db, table, k, calls) ==
    IF k > Len(Schemas) THEN Ok(None, calls)
    ELSE With(table_exists(db, table, Schemas[k]), LAMBDA r :
         IF r.err # None THEN Raise(r.err[1], calls \o r.calls)
         ELSE With(probe_every_schema(db, table, k + 1, calls \o r.calls), LAMBDA rest :
              IF rest.err # None \/ rest.val # None \/ ~r.val THEN rest
              ELSE Ok(Some(Schemas[k]), rest.calls)))

\* the probe "for s in [bronze, silver, gold]: if table_exists(table, s)" from the k-th schema on
RECURSIVE probe_schema(_, _, _, _)
probe_schema(db, table, k, calls) ==
    IF k > Len(Schemas) THEN Ok(None, calls)
    ELSE With(table_exists(db, table, Schemas[k]), LAMBDA r :
         IF r.err # None THEN Raise(r.err[1], calls \o r.calls)
         ELSE IF r.val THEN Ok(Some(Schemas[k]), calls \o r.calls)
         ELSE probe_schema(db, table, k + 1, calls \o r.calls))

\* the try block of _describe_table
describe_resolved(s, db, table, schema, calls) ==
    With([s EXCEPT !.last_mentioned_table = Some(<<table, schema>>)], LAMBDA s1 :
    With(get_table_schema(db, table, schema), LAMBDA ts :
    IF ts.err # None
    THEN Return(s1, calls \o ts.calls, Resp("error_describe", ts.err))
    ELSE With(get_sample_data(db, table, schema, 3), LAMBDA sample :
         IF sample.err # None
         THEN Return(s1, calls \o ts.calls \o sample.calls, Resp("error_describe", sample.err))
         ELSE Return(s1, calls \o ts.calls \o sample.calls,
                     Resp("describe", <<full_name(ts.val), ToString(ts.val.row_count)>>)))))

\* _describe_table noting the bare name as the last mentioned table, in the
\* first schema, before it probes the schemas
describe_noting_first(s, db, table_ref, calls) ==
    With(reference_parts(table_ref), LAMBDA parts :
    IF Len(parts) = 2 THEN describe_resolved(s, db, parts[2], parts[1], calls)
    ELSE IF Len(parts) = 1
    THEN With(probe_schema(db, parts[1], 1, <<>>), LAMBDA probe :
         IF probe.err # None
         THEN Raised([s EXCEPT !.last_mentioned_table = Some(<<parts[1], Schemas[1]>>)],
                     calls \o probe.calls, probe.err[1])
         ELSE IF probe.val = None
              THEN Return(s, calls \o probe.calls, Resp("table_not_found", <<parts[1]>>))
              ELSE describe_resolved(s, db, parts[1], probe.val[1], calls \o probe.calls))
    ELSE Return(s, calls, Resp("invalid_reference", <<table_ref>>)))

\* TransformAgent._describe_table
describe_table(s, db, table_ref, calls) ==
    With(reference_parts(table_ref), LAMBDA parts :
    IF Len(parts) = 2 THEN describe_resolved(s, db, parts[2], parts[1], calls)
    ELSE IF Len(parts) = 1
    THEN With(probe_schema(db, parts[1], 1, <<>>), LAMBDA probe :
         IF probe.err # None THEN Raised(s, calls \o probe.calls, probe.err[1])
         ELSE IF probe.val = None
              THEN Return(s, calls \o probe.calls, Resp("table_not_found", <<parts[1]>>))
              ELSE describe_resolved(s, db, parts[1], probe.val[1], calls \o probe.calls))
    ELSE Return(s, calls, Resp("invalid_reference", <<table_ref>>)))

\* TransformAgent._show_status
show_status(s) ==
    Return(s, <<>>,
           Resp("status",
                <<s.state>>
                \o (IF s.pending_transform # None
                    THEN <<"pending", s.pending_transform[1].source_table,
                           s.pending_transform[1].plan.target_table>>
                    ELSE <<>>)
                \o (IF s.last_result # None
                    THEN <<"last", s.last_result[1].target_table,
                           ToString(s.last_result[1].rows_created)>>
                    ELSE <<>>)))

\* TransformAgent._handle_question
handle_question(s, db, question) ==
    With(identify_table(db, question), LAMBDA found :
    IF found.err # None THEN Raised(s, found.calls, found.err[1])
    ELSE
    With(IF /\ found.val = None
            /\ s.last_mentioned_table # None
            /\ ContainsAny(lower(question), question_references)
         THEN s.last_mentioned_table
         ELSE found.val, LAMBDA ref :
    With([s EXCEPT !.last_mentioned_table = ref], LAMBDA s1 :
    With(lower(question), LAMBDA question_lower :
    IF ContainsAny(question_lower, column_phrases)
    THEN IF ref # None
         THEN describe_table_columns(s1, db, ref[1][1], ref[1][2], found.calls)
         ELSE ask_which_table(s, db, "see the columns of", found.calls)
    ELSE IF ContainsAny(question_lower, data_phrases)
    THEN IF ref # None
         THEN show_table_preview(s1, db, ref[1][1], ref[1][2], found.calls)
         ELSE ask_which_table(s, db, "preview", found.calls)
    ELSE IF ContainsAny(question_lower, tables_phrases)
    THEN show_tables(s, db, found.calls)
    ELSE IF ref # None
    THEN describe_table(s1, db, ref[1][2] \o "." \o ref[1][1], found.calls)
    ELSE IF ContainsAny(question_lower, capability_phrases)
    THEN Return(s, found.calls, show_help(s).response)
    ELSE handle_generic_question(s, found.calls)))))

\* TransformAgent._handle_unclear_intent
handle_unclear_intent(s, db, message, calls) ==
    With(identify_table(db, message), LAMBDA found :
    IF found.err # None THEN Raised(s, calls \o found.calls, found.err[1])
    ELSE IF found.val # None
    THEN Return([s EXCEPT !.last_mentioned_table = found.val], calls \o found.calls,
                Resp("found_table", <<found.val[1][2] \o "." \o found.val[1][1]>>))
    ELSE handle_generic_question(s, calls \o found.calls))

\* TransformAgent._format_plan_for_confirmation returns: it raises when the
\* transformations are not iterable or when the row estimate cannot take the
\* "," format
plan_formats(plan) ==
    /\ plan.transformations_applied.t \in {"list", "str", "object"}
    /\ (Truthy(plan.estimated_rows_after) => plan.estimated_rows_after.t = "int")

\* await_confirmation with the state assigned after the plan is formatted: a
\* plan whose formatting raises stays stored while the state stays "idle"
await_after_format(s, plan, table_schema, calls) ==
    IF plan_formats(plan)
    THEN Return([s EXCEPT !.state = "awaiting"], calls,
                Resp("plan", <<full_name(table_schema), plan.target_table, plan.sql>>))
    ELSE Return(s, calls, Resp("error_processing", <<"format error">>))

\* the statements of _handle_transform_request from "self.state = AWAITING_CONFIRMATION" on
await_confirmation(s, plan, table_schema, calls) ==
    With([s EXCEPT !.state = "awaiting"], LAMBDA s1 :
    IF plan_formats(plan)
    THEN Return(s1, calls, Resp("plan", <<full_name(table_schema), plan.target_table, plan.sql>>))
    ELSE Return(s1, calls, Resp("error_processing", <<"format error">>)))

\* store_pending with the source written table first, as "table.schema"
store_pending_reversed(s, plan, source, table_schema, user_request) ==
    [s EXCEPT !.pending_transform =
        Some([plan |-> plan,
              source_table |-> source[1] \o "." \o source[2],
              source_schema |-> table_schema,
              user_request |-> user_request])]

\* store_pending storing the SQL of the plan with a comment line put before it
store_pending_annotated(s, plan, source, table_schema, user_request) ==
    [s EXCEPT !.pending_transform =
        Some([plan |-> [plan EXCEPT !.sql = "-- from " \o source[1] \o "\n" \o @],
              source_table |-> source[2] \o "." \o source[1],
              source_schema |-> table_schema,
              user_request |-> user_request])]

\* the assignment "self.pending_transform = PendingTransform(...)"
store_pending(s, plan, source, table_schema, user_request) ==
    [s EXCEPT !.pending_transform =
        Some([plan |-> plan,
              source_table |-> source[2] \o "." \o source[1],
              source_schema |-> table_schema,
              user_request |-> user_request])]

\* _handle_transform_request asking the LLM for the plan as soon as the schema
\* is fetched, before the sample rows are
request_before_sample(s, db, llm, user_request, calls0) ==
    With(identify_table(db, user_request), LAMBDA found :
    IF found.err # None
    THEN Return(s, calls0 \o found.calls, Resp("error_processing", found.err))
    ELSE
    With(IF /\ found.val = None
            /\ s.last_mentioned_table # None
            /\ ContainsAny(lower(user_request), transform_references)
         THEN s.last_mentioned_table
         ELSE found.val, LAMBDA ref :
    IF ref = None THEN ask_for_table_clarification(s, db, calls0 \o found.calls)
    ELSE
    With(ref[1], LAMBDA source :
    With([s EXCEPT !.last_mentioned_table = Some(source)], LAMBDA s1 :
    With(get_table_schema(db, source[1], source[2]), LAMBDA table_schema :
    With(calls0 \o found.calls \o table_schema.calls, LAMBDA c2 :
    IF table_schema.err # None THEN Return(s1, c2, Resp("error_processing", table_schema.err))
    ELSE
    With(generate_transform_sql(llm, user_request, table_schema.val, None,
                                determine_target_layer(user_request, source[2]), catalog_name),
         LAMBDA plan :
    With(c2 \o plan.calls, LAMBDA c3 :
    IF plan.err # None THEN Return(s1, c3, Resp("error_processing", plan.err))
    ELSE
    With(get_sample_data(db, source[1], source[2], 5), LAMBDA sample_data :
    IF sample_data.err # None
    THEN Return(s1, c3 \o sample_data.calls, Resp("error_processing", sample_data.err))
    ELSE await_confirmation(store_pending(s1, plan.val, source, table_schema.val, user_request),
                            plan.val, table_schema.val, c3 \o sample_data.calls))))))))))

\* TransformAgent._handle_transform_request
handle_transform_request(s, db, llm, user_request, calls0) ==
    With(identify_table(db, user_request), LAMBDA found :
    IF found.err # None
    THEN Return(s, calls0 \o found.calls, Resp("error_processing", found.err))
    ELSE
    With(IF /\ found.val = None
            /\ s.last_mentioned_table # None
            /\ ContainsAny(lower(user_request), transform_references)
         THEN s.last_mentioned_table
         ELSE found.val, LAMBDA ref :
    IF ref = None THEN ask_for_table_clarification(s, db, calls0 \o found.calls)
    ELSE
    With(ref[1], LAMBDA source :
    With([s EXCEPT !.last_mentioned_table = Some(source)], LAMBDA s1 :
    With(get_table_schema(db, source[1], source[2]), LAMBDA table_schema :
    With(calls0 \o found.calls \o table_schema.calls, LAMBDA c2 :
    IF table_schema.err # None THEN Return(s1, c2, Resp("error_processing", table_schema.err))
    ELSE
    With(get_sample_data(db, source[1], source[2], 5), LAMBDA sample_data :
    With(c2 \o sample_data.calls, LAMBDA c3 :
    IF sample_data.err # None THEN Return(s1, c3, Resp("error_processing", sample_data.err))
    ELSE
    With(generate_transform_sql(llm, user_request, table_schema.val, sample_data.val,
                                determine_target_layer(user_request, source[2]), catalog_name),
         LAMBDA plan :
    IF plan.err # None THEN Return(s1, c3 \o plan.calls, Resp("error_processing", plan.err))
    ELSE await_confirmation(store_pending(s1, plan.val, source, table_schema.val, user_request),
                            plan.val, table_schema.val, c3 \o plan.calls))))))))))

\* run_pending without the except clause's "self.state = AgentState.IDLE": a
\* failed execution clears the plan and leaves the state it was entered in
run_pending_stuck(s, db, plan) ==
    With([s EXCEPT !.pending_transform = None], LAMBDA cleared :
    With(execute_command(db, plan.sql), LAMBDA command :
    IF command.err # None
    THEN Return(cleared, command.calls, Resp("execution_failed", command.err))
    ELSE
    With(execute_query(db, "SELECT COUNT(*) FROM " \o plan.target_table), LAMBDA result :
    IF result.err # None
    THEN Return(cleared, command.calls \o result.calls, Resp("execution_failed", result.err))
    ELSE
    With(IF result.val.rows # <<>> THEN result.val.rows[1][1] ELSE 0, LAMBDA row_count :
    Return([cleared EXCEPT !.state = "idle",
                           !.last_result =
                               Some([success |-> TRUE,
                                     target_table |-> plan.target_table,
                                     rows_created |-> row_count,
                                     message |-> "Transform executed successfully",
                                     sql_executed |-> plan.sql])],
           command.calls \o result.calls,
           Resp("transform_complete", <<plan.target_table, ToString(row_count)>>))))))

\* run_pending with the result recorded before the count query is made: a
\* failed count query leaves a result of the failed execution behind
run_pending_recording(s, db, plan) ==
    With([s EXCEPT !.state = "idle", !.pending_transform = None], LAMBDA cleared :
    With(execute_command(db, plan.sql), LAMBDA command :
    IF command.err # None
    THEN Return(cleared, command.calls, Resp("execution_failed", command.err))
    ELSE
    With(execute_query(db, "SELECT COUNT(*) FROM " \o plan.target_table), LAMBDA result :
    With(IF result.err = None /\ result.val.rows # <<>> THEN result.val.rows[1][1] ELSE 0,
         LAMBDA row_count :
    With([cleared EXCEPT !.last_result =
              Some([success |-> result.err = None,
                    target_table |-> plan.target_table,
                    rows_created |-> row_count,
                    message |-> "Transform executed successfully",
                    sql_executed |-> plan.sql])], LAMBDA recorded :
    IF result.err # None
    THEN Return(recorded, command.calls \o result.calls, Resp("execution_failed", result.err))
    ELSE Return(recorded, command.calls \o result.calls,
                Resp("transform_complete", <<plan.target_table, ToString(row_count)>>)))))))

\* the try block of _execute_pending_transform, entered in state EXECUTING
run_pending(s, db, plan) ==
    With([s EXCEPT !.state = "idle", !.pending_transform = None], LAMBDA cleared :
    With(execute_command(db, plan.sql), LAMBDA command :
    IF command.err # None
    THEN Return(cleared, command.calls, Resp("execution_failed", command.err))
    ELSE
    With(execute_query(db, "SELECT COUNT(*) FROM " \o plan.target_table), LAMBDA result :
    IF result.err # None
    THEN Return(cleared, command.calls \o result.calls, Resp("execution_failed", result.err))
    ELSE
    With(IF result.val.rows # <<>> THEN result.val.rows[1][1] ELSE 0, LAMBDA row_count :
    Return([cleared EXCEPT !.last_result =
                Some([success |-> TRUE,
                      target_table |-> plan.target_table,
                      rows_created |-> row_count,
                      message |-> "Transform executed successfully",
                      sql_executed |-> plan.sql])],
           command.calls \o result.calls,
           Resp("transform_complete", <<plan.target_table, ToString(row_count)>>))))))

\* _execute_pending_transform keeping the plan for another attempt when its
\* execution fails
execute_and_keep(s, db) ==
    IF s.pending_transform = None
    THEN Return([s EXCEPT !.state = "idle"], <<>>, Resp("no_pending", <<>>))
    ELSE With(run_pending([s EXCEPT !.state = "executing"], db, s.pending_transform[1].plan),
              LAMBDA out :
              IF out.response.kind = "execution_failed" THEN [out EXCEPT !.s = s] ELSE out)

\* TransformAgent._execute_pending_transform
execute_pending_transform(s, db) ==
    IF s.pending_transform = None
    THEN Return([s EXCEPT !.state = "idle"], <<>>, Resp("no_pending", <<>>))
    ELSE run_pending([s EXCEPT !.state = "executing"], db, s.pending_transform[1].plan)

\* _cancel_pending_transform without "self.pending_transform = None"
cancel_keeping_plan(s) == Return([s EXCEPT !.state = "idle"], <<>>, Resp("cancelled", <<>>))

\* _cancel_pending_transform forgetting the table the plan was about as well
cancel_forgetting_table(s) ==
    Return([s EXCEPT !.pending_transform = None, !.state = "idle", !.last_mentioned_table = None],
           <<>>, Resp("cancelled", <<>>))

\* TransformAgent._cancel_pending_transform
cancel_pending_transform(s) ==
    Return([s EXCEPT !.pending_transform = None, !.state = "idle"], <<>>, Resp("cancelled", <<>>))

\* _show_pending_sql that returns the session to idle once the SQL is shown
show_sql_and_leave(s) ==
    IF s.pending_transform = None
    THEN Return(s, <<>>, Resp("no_pending_sql", <<>>))
    ELSE Return([s EXCEPT !.state = "idle"], <<>>,
                Resp("pending_sql", <<s.pending_transform[1].plan.sql>>))

\* TransformAgent._show_pending_sql
show_pending_sql(s) ==
    IF s.pending_transform = None
    THEN Return(s, <<>>, Resp("no_pending_sql", <<>>))
    ELSE Return(s, <<>>, Resp("pending_sql", <<s.pending_transform[1].plan.sql>>))

\* _handle_confirmation_unclear that drops the pending transform with the prompt
confirmation_dropped(s, user_message) ==
    Return([s EXCEPT !.state = "idle", !.pending_transform = None], <<>>,
           Resp("confirm_or_cancel", <<>>))

\* TransformAgent._handle_confirmation_unclear
handle_confirmation_unclear(s, user_message) == Return(s, <<>>, Resp("confirm_or_cancel", <<>>))

\* the branch TransformAgent.chat takes when no transform awaits confirmation:
\* one of the explicit commands, or the intent _detect_intent returns
idle_route(db, message) ==
    With(lower(message), LAMBDA message_lower :
    IF message_lower \in {"help", "?"} THEN Ok("help", <<>>)
    ELSE IF message_lower \in {"show tables", "list tables", "tables"} THEN Ok("tables", <<>>)
    ELSE IF startswith(message_lower, "describe ") \/ startswith(message_lower, "desc ")
    THEN Ok("describe", <<>>)
    ELSE IF message_lower \in {"status", "state"} THEN Ok("status", <<>>)
    ELSE detect_intent(db, message))

\* chat_idle with a message of unclear intent handled as a transform request
chat_idle_keen(s, db, llm, message) ==
    With(idle_route(db, message), LAMBDA route :
    IF route.err # None THEN Raised(s, route.calls, route.err[1])
    ELSE IF route.val = "help" THEN show_help(s)
    ELSE IF route.val = "tables" THEN show_tables(s, db, <<>>)
    ELSE IF route.val = "describe" THEN describe_table(s, db, describe_argument(message), <<>>)
    ELSE IF route.val = "status" THEN show_status(s)
    ELSE IF route.val = "question"
    THEN With(handle_question(s, db, message), LAMBDA out : [out EXCEPT !.calls = route.calls \o @])
    ELSE handle_transform_request(s, db, llm, message, route.calls))

\* the part of chat that TransformAgent.chat runs when no transform awaits confirmation
chat_idle(s, db, llm, message) ==
    With(idle_route(db, message), LAMBDA route :
    IF route.err # None THEN Raised(s, route.calls, route.err[1])
    ELSE IF route.val = "help" THEN show_help(s)
    ELSE IF route.val = "tables" THEN show_tables(s, db, <<>>)
    ELSE IF route.val = "describe" THEN describe_table(s, db, describe_argument(message), <<>>)
    ELSE IF route.val = "status" THEN show_status(s)
    ELSE IF route.val = "question"
    THEN With(handle_question(s, db, message), LAMBDA out : [out EXCEPT !.calls = route.calls \o @])
    ELSE IF route.val = "transform" THEN handle_transform_request(s, db, llm, message, route.calls)
    ELSE handle_unclear_intent(s, db, message, route.calls))

\* a confirmation branch that takes every message outside the cancel and show
\* sql vocabularies for a confirmation
chat_awaiting_eager(s, db, user_message, message_lower) ==
    IF message_lower \in {"cancel", "no", "n", "abort"} THEN cancel_pending_transform(s)
    ELSE IF message_lower \in {"show sql", "sql"} THEN show_pending_sql(s)
    ELSE execute_pending_transform(s, db)

\* the confirmation branch of TransformAgent.chat
chat_awaiting(s, db, user_message, message_lower) ==
    IF message_lower \in {"confirm", "yes", "y", "execute", "run"} THEN execute_pending_transform(s, db)
    ELSE IF message_lower \in {"cancel", "no", "n", "abort"} THEN cancel_pending_transform(s)
    ELSE IF message_lower \in {"show sql", "sql"} THEN show_pending_sql(s)
    ELSE handle_confirmation_unclear(s, user_message)

\* chat with the confirmation branch taken for its three vocabularies only:
\* every other message is handled as in idle, a new transform request included
chat_restarting(s, db, llm, user_message) ==
    With(strip(user_message), LAMBDA message :
    IF /\ s.state = "awaiting"
       /\ lower(message) \in {"confirm", "yes", "y", "execute", "run", "cancel", "no", "n",
                              "abort", "show sql", "sql"}
    THEN chat_awaiting(s, db, user_message, lower(message))
    ELSE chat_idle(s, db, llm, message))

\* chat with the three vocabularies of the confirmation branch tested before
\* the state: a confirm word in idle reaches _execute_pending_transform
chat_vocabulary_first(s, db, llm, user_message) ==
    With(strip(user_message), LAMBDA message :
    IF \/ s.state = "awaiting"
       \/ lower(message) \in {"confirm", "yes", "y", "execute", "run", "cancel", "no", "n",
                              "abort", "show sql", "sql"}
    THEN chat_awaiting(s, db, user_message, lower(message))
    ELSE chat_idle(s, db, llm, message))

\* TransformAgent.chat
chat(s, db, llm, user_message) ==
    With(strip(user_message), LAMBDA message :
    IF s.state = "awaiting" THEN chat_awaiting(s, db, user_message, lower(message))
    ELSE chat_idle(s, db, llm, message))

\* -------------------------------------------------- the inputs of a run

\* the replies of the LLM: a complete record, a record with the required fields
\* only, a record with an unqualified target, JSON that is no record, text that
\* is no JSON, records that lack a required field, and records whose optional
\* fields have the wrong type
FullReply ==
    [parses |-> TRUE,
     data |-> JObj([target_table |-> "main.silver.customers_clean",
                    sql |-> "CREATE OR REPLACE TABLE main.silver.customers_clean AS SELECT ...",
                    transformations_applied |-> JList(<<"remove nulls", "dedupe">>),
                    explanation |-> JStr("cleans the customers"),
                    estimated_impact |-> JObj([estimated_rows_after |-> JInt(1200),
                                               columns_modified |-> JList(<<"email">>)])])]

MinimalReply ==
    [parses |-> TRUE,
     data |-> JObj([target_table |-> "main.gold.summary",
                    sql |-> "CREATE OR REPLACE TABLE main.gold.summary AS SELECT ..."])]

\* a reply whose target table carries no catalog and no schema
UnqualifiedReply ==
    [parses |-> TRUE,
     data |-> JObj([target_table |-> "customers_clean",
                    sql |-> "CREATE OR REPLACE TABLE customers_clean AS SELECT ..."])]

\* a reply that is valid JSON and no object: the empty list
ListReply ==
    [parses |-> TRUE, data |-> JList(<<>>)]

Replies ==
    { FullReply,
      MinimalReply,
      UnqualifiedReply,
      ListReply,
      [parses |-> FALSE, data |-> JNull],
      [parses |-> TRUE, data |-> JObj([target_table |-> "main.silver.t"])],
      [parses |-> TRUE, data |-> JObj([sql |-> "SELECT 1"])],
      [parses |-> TRUE, data |-> JObj([target_table |-> "main.silver.t", sql |-> "CREATE TABLE t",
                                       estimated_impact |-> JNull])],
      [parses |-> TRUE, data |-> JObj([target_table |-> "main.silver.t2", sql |-> "CREATE TABLE t2",
                                       transformations_applied |-> JNull])],
      [parses |-> TRUE, data |-> JObj([target_table |-> "main.silver.t3", sql |-> "CREATE TABLE t3",
                                       estimated_impact |-> JObj([estimated_rows_after |-> JStr("about 900")])])] }

\* the conversations the interface serves: each browser session of the chat
\* interface calls app.chat with its own history
Conversations == {"first", "second"}

\* the outcomes of the schema and sample fetches of one turn
Fetches == {"ok", "schema_fail", "sample_fail"}

\* the outcomes of the command and of the count query of one turn
Execs == {"ok", "command_fail", "count_fail"}

\* the rows the COUNT(*) query of an execution may return
CountRows == { <<>>, <<<<1200>>>> }

\* the backend's answers during one turn
Backend(tables, down, fetch, exec, count_rows) ==
    [tables |-> tables, down |-> down, fetch |-> fetch, exec |-> exec,
     count |-> 1500, count_rows |-> count_rows, columns |-> <<"contact_id", "email">>]

\* the LLM's answer during one turn: Some(reply), or None when the API call raises
Llm(reply) == [reply |-> reply]

\* ---------------------------------------------------------------- state

vars == <<state, pending_transform, last_result, last_mentioned_table, warehouse, turn,
          pending_executed, pending_owner, given, returned, agent, connection, initialized>>

\* the variables of app.py and of the connections
hosting == <<agent, connection, initialized>>

\* the sessions a process builds, in the order it builds them
MaxSessions == 5

SessionIds == 1..MaxSessions

\* create_app has built the first session, whose connection is open
Hosted ==
    /\ agent = Some(1)
    /\ connection = [id \in SessionIds |-> IF id = 1 THEN "open" ELSE "absent"]
    /\ initialized = Some(TRUE)

Session ==
    [state |-> state, pending_transform |-> pending_transform, last_result |-> last_result,
     last_mentioned_table |-> last_mentioned_table]

\* TransformAgent.__init__
Init ==
    /\ state = "idle"
    /\ pending_transform = None
    /\ last_result = None
    /\ last_mentioned_table = None
    /\ warehouse \in Catalogs
    /\ turn = None
    /\ pending_executed = FALSE
    /\ pending_owner = None
    /\ given = None
    /\ returned = None
    /\ Hosted

\* the turn made a call of one of the operations ops
Made(out, ops) == \E i \in DOMAIN out.calls : out.calls[i].op \in ops

\* the turn made a call of one of the operations ops that returned
Succeeded(calls, ops) == \E i \in DOMAIN calls : calls[i].op \in ops /\ calls[i].ok

\* the answers of the backend and of the LLM during one turn
Answers(down, fetch, reply, exec, count_rows) ==
    [db |-> Backend(warehouse, down, fetch, exec, count_rows), llm |-> Llm(reply)]

\* what TransformAgent.chat does with the message under these answers
Outcome(user_message, answers) == chat(Session, answers.db, answers.llm, user_message)

\* the try/except of app.chat around agent.chat(message): the response, or the
\* error text made of the exception
hosted_response(out) ==
    IF out.raised THEN Resp("error", out.response.detail) ELSE out.response

\* one TransformAgent.chat call under these answers, which returned or raised out
Turn(conversation, user_message, answers, out) ==
    /\ state' = out.s.state
    /\ pending_transform' = out.s.pending_transform
    /\ last_result' = out.s.last_result
    /\ last_mentioned_table' = out.s.last_mentioned_table
    /\ turn' = Some([conversation |-> conversation, owner |-> pending_owner,
                     msg |-> user_message, db |-> answers.db, llm |-> answers.llm,
                     pre |-> Session, calls |-> out.calls, response |-> out.response,
                     raised |-> out.raised, answer |-> hosted_response(out)])
    /\ pending_owner' =
          IF out.s.pending_transform = None THEN None
          ELSE IF out.s.pending_transform = pending_transform THEN pending_owner
          ELSE Some(conversation)
    /\ pending_executed' =
          IF out.s.pending_transform = None \/ out.s.pending_transform # pending_transform
          THEN FALSE
          ELSE pending_executed \/ Made(out, {"execute_command"})
    /\ UNCHANGED <<given, returned>>
    /\ UNCHANGED hosting
    \* a command that ran may have changed the tables of the warehouse
    /\ warehouse' \in (IF Succeeded(out.calls, {"execute_command"}) THEN Catalogs ELSE {warehouse})

\* A user sends a message in one of the conversations and app.chat hands it to
\* the chat method of the one agent of the process.  An answer of
\* the backend or the LLM is drawn only for a call the turn makes: the listings
\* that fail first, then the outcome of the fetches the turn makes under these
\* listings, then the LLM's reply when the turn reaches it, then the outcome of
\* the command and of the count query.
Chat ==
    /\ turn = None
    /\ \E conversation \in Conversations :
       \E user_message \in Messages :
       \E quiet \in {Outcome(user_message, Answers({}, "ok", None, "ok", <<>>))} :
        IF quiet.calls = <<>>
        THEN Turn(conversation, user_message, Answers({}, "ok", None, "ok", <<>>), quiet)
        ELSE
        \E down \in (IF Made(quiet, {"list_tables"}) THEN DownSets ELSE {{}}) :
        \E listed \in {Outcome(user_message, Answers(down, "ok", None, "ok", <<>>))} :
        \E fetch \in (IF Made(listed, {"get_table_schema", "get_sample_data"})
                      THEN Fetches ELSE {"ok"}) :
        \E fetched \in {Outcome(user_message, Answers(down, fetch, None, "ok", <<>>))} :
        \E reply \in (IF Made(fetched, {"call_claude"})
                      THEN {None} \cup {Some(r) : r \in Replies} ELSE {None}) :
        \E exec \in (IF Made(fetched, {"execute_command"}) THEN Execs ELSE {"ok"}) :
        \E count_rows \in (IF exec = "ok" /\ Made(fetched, {"execute_query"})
                           THEN CountRows ELSE {<<>>}) :
        \E out \in {Outcome(user_message, Answers(down, fetch, reply, exec, count_rows))} :
            Turn(conversation, user_message, Answers(down, fetch, reply, exec, count_rows), out)

\* app.chat returns the response of the turn to the interface
Respond ==
    /\ turn # None
    /\ turn' = None
    /\ UNCHANGED <<state, pending_transform, last_result, last_mentioned_table, warehouse,
                   pending_executed, pending_owner, given, returned>>
    /\ UNCHANGED hosting

Next == Chat \/ Respond

Spec == Init /\ [][Next]_vars

\* ------------------------------------------ the life of the connection

\* The process builds sessions with initialize_agent and the session the
\* process serves asks the backend through _get_cursor; the conversation of a
\* session is left aside here.  connection[id] is "absent" before session id is
\* built, "unopened" while its DatabricksService has no connection yet, "open"
\* after connect and "closed" after close.

\* where TransformAgent() may raise: get_databricks_settings in
\* DatabricksService(), LLMService(), or self.db.connect()
Constructions == {"ok", "settings_fail", "llm_fail", "connect_fail"}

\* the session the next TransformAgent() call builds
NextSession(conn) == CHOOSE id \in SessionIds : conn[id] = "absent" /\ \A j \in 1..(id - 1) : conn[j] # "absent"

\* TransformAgent.__init__ connecting before the other services are built
construct_connect_first(conn, id, construction) ==
    IF construction = "settings_fail" THEN [connection |-> conn, raised |-> TRUE]
    ELSE IF construction = "connect_fail"
    THEN [connection |-> [conn EXCEPT ![id] = "unopened"], raised |-> TRUE]
    ELSE [connection |-> [conn EXCEPT ![id] = "open"], raised |-> construction = "llm_fail"]

\* TransformAgent.__init__: the services are built, then the connection is opened
construct(conn, id, construction) ==
    IF construction = "settings_fail" THEN [connection |-> conn, raised |-> TRUE]
    ELSE IF construction \in {"llm_fail", "connect_fail"}
    THEN [connection |-> [conn EXCEPT ![id] = "unopened"], raised |-> TRUE]
    ELSE [connection |-> [conn EXCEPT ![id] = "open"], raised |-> FALSE]

\* DatabricksService.close of session id, which returns
close(conn, id) == [conn EXCEPT ![id] = IF @ = "open" THEN "closed" ELSE @]

\* app.initialize_agent: closes raises when agent.close() raises
initialize_agent(current, conn, closes, construction) ==
    IF current # None /\ conn[current[1]] = "open" /\ ~closes
    THEN [agent |-> current, connection |-> conn, success |-> FALSE]
    ELSE
    With(IF current # None THEN close(conn, current[1]) ELSE conn, LAMBDA closed :
    With(construct(closed, NextSession(closed), construction), LAMBDA built :
    IF built.raised
    THEN [agent |-> current, connection |-> built.connection, success |-> FALSE]
    ELSE [agent |-> Some(NextSession(closed)), connection |-> built.connection,
          success |-> TRUE]))

\* the process starts with no session
LifecycleInit ==
    /\ state = "idle"
    /\ pending_transform = None
    /\ last_result = None
    /\ last_mentioned_table = None
    /\ warehouse \in Catalogs
    /\ turn = None
    /\ pending_executed = FALSE
    /\ pending_owner = None
    /\ given = None
    /\ returned = None
    /\ agent = None
    /\ connection = [id \in SessionIds |-> "absent"]
    /\ initialized = None

\* initialize_agent(), called by create_app, by app.chat when there is no
\* agent, or by the hosting layer to build the agent anew
InitializeAgent ==
    /\ \E id \in SessionIds : connection[id] = "absent"
    /\ \E closes \in BOOLEAN : \E construction \in Constructions :
       \E done \in {initialize_agent(agent, connection, closes, construction)} :
          /\ agent' = done.agent
          /\ connection' = done.connection
          /\ initialized' = Some(done.success)
    /\ UNCHANGED <<state, pending_transform, last_result, last_mentioned_table, warehouse,
                   turn, pending_executed, pending_owner, given, returned>>

\* DatabricksService._get_cursor in a turn of the agent: connects when the
\* service has no connection, which may raise
GetCursor ==
    /\ agent # None
    /\ \E connects \in BOOLEAN :
          connection' = [connection EXCEPT ![agent[1]] =
                            IF @ # "open" /\ connects THEN "open" ELSE @]
    /\ UNCHANGED <<state, pending_transform, last_result, last_mentioned_table, warehouse,
                   turn, pending_executed, pending_owner, given, returned, agent, initialized>>

LifecycleNext == InitializeAgent \/ GetCursor

Lifecycle == LifecycleInit /\ [][LifecycleNext]_vars

\* ------------------------------------------- the functions on their own

\* The functions of the agent that take a message and ask the backend, called
\* on their own for every message, every catalog and every set of schemas
\* whose listing fails.

\* the catalogs of these calls: those of the conversations, and one whose three
\* schemas each hold a table that a message naming raw_customers matches, by
\* its name or by its name without raw_ or stg_
Warehouses ==
    Catalogs \cup
    { [bronze |-> <<"stg_orders", "raw_customers">>, silver |-> <<"customers">>,
       gold |-> <<"stg_customers">>] }

\* the messages of these calls: those of the conversations as chat passes them
\* on, questions that also read as transform requests, requests that name a
\* layer, and messages that match no pattern, short and long
Requests ==
    StrippedMessages \cup
    { "how do i clean raw_customers?",
      "remove nulls, what is in the result",
      "Explain then aggregate stg_orders",
      "fix raw_customers?",
      "summary of silver into Gold",
      "metrics for the Silver layer",
      "monthly report",
      "fix it now",
      "cleanup raw_customers",
      "please update the stg_orders numbers today" }

\* the schemas a source table of these calls may lie in
SourceSchemas == {"bronze", "silver", "gold", "staging"}

\* the plan and the schema snapshot of a transform of bronze.raw_customers
SomePlan == generate_transform_sql(Llm(Some(MinimalReply)), "clean it", None, None, "silver",
                                   catalog_name).val

SomeSchema ==
    [catalog |-> catalog_name, schema |-> "bronze", table |-> "raw_customers",
     columns |-> <<"contact_id", "email">>, row_count |-> 1500]

Mentioned ==
    [state |-> "idle", pending_transform |-> None, last_result |-> None,
     last_mentioned_table |-> Some(<<"raw_customers", "bronze">>)]

\* the sessions these calls may find: the fresh one, one that has mentioned a
\* table, one that awaits the confirmation of a plan, one that has executed it
Sessions ==
    { [state |-> "idle", pending_transform |-> None, last_result |-> None,
       last_mentioned_table |-> None],
      Mentioned,
      await_confirmation(store_pending(Mentioned, SomePlan, <<"raw_customers", "bronze">>,
                                       SomeSchema, "clean it"),
                         SomePlan, SomeSchema, <<>>).s,
      [Mentioned EXCEPT !.last_result =
          Some([success |-> TRUE, target_table |-> SomePlan.target_table, rows_created |-> 1200,
                message |-> "Transform executed successfully", sql_executed |-> SomePlan.sql])] }

\* an agent in one of these sessions, and the arguments of the call
FunctionsInit ==
    /\ \E s \in Sessions :
          /\ state = s.state
          /\ pending_transform = s.pending_transform
          /\ last_result = s.last_result
          /\ last_mentioned_table = s.last_mentioned_table
    /\ warehouse \in Warehouses
    /\ turn = None
    /\ pending_executed = FALSE
    /\ pending_owner = None
    /\ \E down \in DownSets : \E message \in Requests : \E source_schema \in SourceSchemas :
          given = Some([db |-> [tables |-> warehouse, down |-> down], message |-> message,
                        source_schema |-> source_schema])
    /\ returned = None
    /\ Hosted

\* the call op returns or raises out
Returns(op, out) ==
    /\ returned' = Some([op |-> op, out |-> out, session |-> Session])
    /\ UNCHANGED <<state, pending_transform, last_result, last_mentioned_table, warehouse,
                   turn, pending_executed, pending_owner, given>>
    /\ UNCHANGED hosting

\* self._identify_table(message)
Resolve ==
    /\ returned = None
    /\ Returns("identify_table", identify_table(given[1].db, given[1].message))

\* self._detect_intent(message)
Classify ==
    /\ returned = None
    /\ Returns("detect_intent", detect_intent(given[1].db, given[1].message))

\* self._determine_target_layer(user_request, source_schema)
ChooseLayer ==
    /\ returned = None
    /\ Returns("determine_target_layer",
               determine_target_layer(given[1].message, given[1].source_schema))

\* self.llm.generate_transform_sql(...) for every answer of the LLM; the schema
\* and the sample rows go into the prompt only
Generate ==
    /\ returned = None
    /\ \E reply \in {None} \cup {Some(r) : r \in Replies} :
          Returns("generate_transform_sql",
                  [reply |-> reply,
                   result |-> generate_transform_sql(Llm(reply), given[1].message, None, None,
                                                     given[1].source_schema, catalog_name)])

FunctionsNext == Resolve \/ Classify \/ ChooseLayer \/ Generate

Functions == FunctionsInit /\ [][FunctionsNext]_vars

\* ------------------------------------------------ the parsing of replies

\* _parse_json_response is called on its own with the text of a reply: a
\* record as the LLM writes it, bare or inside a code fence, with or without
\* commentary before and after it.

\* the records and the texts the LLM writes them as: on one line, over several
\* lines with the estimated impact nested, the same on one line, and empty
Records ==
    << [text |-> "{\"target_table\": \"main.silver.c\", \"sql\": \"SELECT 1\"}",
        data |-> JObj([target_table |-> JStr("main.silver.c"), sql |-> JStr("SELECT 1")])],
       [text |-> "{\n \"target_table\": \"main.silver.c\",\n \"estimated_impact\": {\"columns_modified\": 2},\n \"sql\": \"SELECT 1\"\n}",
        data |-> JObj([target_table |-> JStr("main.silver.c"), sql |-> JStr("SELECT 1"),
                       estimated_impact |-> JObj([columns_modified |-> JInt(2)])])],
       [text |-> "{\"sql\": \"SELECT 1\", \"target_table\": \"c\", \"estimated_impact\": {\"estimated_rows_after\": 10}}",
        data |-> JObj([target_table |-> JStr("c"), sql |-> JStr("SELECT 1"),
                       estimated_impact |-> JObj([estimated_rows_after |-> JInt(10)])])],
       [text |-> "{}", data |-> JObj(<<>>)] >>

\* the reply: the commentary around the record, bare or fenced
ReplyText(leading, record, fencing, trailing) ==
    leading
    \o (IF fencing = "bare" THEN Records[record].text
        ELSE Fence \o (IF fencing = "json fence" THEN "json" ELSE "") \o "\n"
             \o Records[record].text \o "\n" \o Fence)
    \o trailing

ParsingInit ==
    /\ state = "idle"
    /\ pending_transform = None
    /\ last_result = None
    /\ last_mentioned_table = None
    /\ warehouse \in Catalogs
    /\ turn = None
    /\ pending_executed = FALSE
    /\ pending_owner = None
    \* the commentary has no brace and no backquote
    /\ \E leading \in {"", "Here is the plan:\n", "Sure! "} :
       \E record \in DOMAIN Records :
       \E fencing \in {"bare", "fence", "json fence"} :
       \E trailing \in {"", "\nHope this helps.", " Done.", "\n\n"} :
          given = Some([leading |-> leading, record |-> record, fencing |-> fencing,
                        trailing |-> trailing,
                        text |-> ReplyText(leading, record, fencing, trailing)])
    /\ returned = None
    /\ Hosted

\* self._parse_json_response(response)
ParseReply ==
    /\ returned = None
    /\ Returns("parse_json_response", parse_json_text(given[1].text))

Parsing == ParsingInit /\ [][ParseReply]_vars

\* ------------------------------------------------------------ properties

\* The properties speak of the last turn, turn[1], in the states that follow a
\* Chat step, and of the session in every state.

\* the message of the last turn as TransformAgent.chat compares it: trimmed and
\* lower-cased
said == lower(strip(turn[1].msg))

ConfirmWords == {"confirm", "yes", "y", "execute", "run"}

CancelWords == {"cancel", "no", "n", "abort"}

ShowSqlWords == {"show sql", "sql"}

\* the calls of the operation op that the last turn made, in order
CallsOf(op) == SelectSeq(turn[1].calls, LAMBDA c : c.op = op)

\* the last turn began while a transform awaited confirmation
AwaitingTurn == turn # None /\ turn[1].pre.state = "awaiting"

\* C1: execute_command is called only in a turn that began in the awaiting
\* state with a pending transform and whose trimmed, lower-cased message is one
\* of confirm, yes, y, execute, run; no other turn runs mutating SQL.
C1_CommandOnlyOnConfirm ==
    (turn # None /\ CallsOf("execute_command") # <<>>) =>
        /\ turn[1].pre.state = "awaiting"
        /\ turn[1].pre.pending_transform # None
        /\ said \in ConfirmWords

\* a turn that ran the command on " YES ", which is "yes" once trimmed and lower-cased
C1_Witness ==
    /\ turn # None
    /\ turn[1].msg = " YES "
    /\ CallsOf("execute_command") # <<>>

\* C2: in every state between two chat calls, the first included, a pending
\* transform is present exactly when the state is awaiting.
C2_PendingIffAwaiting == (pending_transform # None) <=> (state = "awaiting")

\* a plan was stored by a turn that began idle, and its formatting raised
C2_Witness ==
    /\ turn # None
    /\ turn[1].pre.state = "idle"
    /\ turn[1].response.kind = "error_processing"
    /\ pending_transform # None
    /\ state = "awaiting"

\* C3: after every chat call the state is idle or awaiting, whether the
\* execution inside the call succeeded or failed; executing is never the state
\* the next message meets.
C3_ExecutingNotObserved == state \in {"idle", "awaiting"}

\* a confirm turn whose command failed has ended, and the state is idle
C3_Witness ==
    /\ AwaitingTurn
    /\ \E i \in DOMAIN turn[1].calls :
          turn[1].calls[i].op = "execute_command" /\ ~turn[1].calls[i].ok
    /\ state = "idle"

\* C4: in the awaiting state a message that is a confirm word once trimmed and
\* lower-cased causes exactly one execute_command call, with the SQL of the
\* pending plan, and the turn ends without a pending transform; no plan that
\* was passed to execute_command is pending afterwards, so neither that
\* message nor a later one executes it a second time.
C4_ConfirmExecutesOnce ==
    /\ (AwaitingTurn /\ said \in ConfirmWords) =>
          /\ Len(CallsOf("execute_command")) = 1
          /\ CallsOf("execute_command")[1].arg = turn[1].pre.pending_transform[1].plan.sql
          /\ pending_transform = None
    /\ ~pending_executed

\* "Execute" confirmed a plan, the command ran once and its result was recorded
C4_Witness ==
    /\ AwaitingTurn
    /\ turn[1].msg = "Execute"
    /\ Len(CallsOf("execute_command")) = 1
    /\ last_result # None
    /\ last_result[1].sql_executed = turn[1].pre.pending_transform[1].plan.sql

\* C5: in the awaiting state a message that is a cancel word once trimmed and
\* lower-cased discards the pending transform and moves the session to idle
\* without an execute_command or execute_query call.
C5_CancelDiscards ==
    (AwaitingTurn /\ said \in CancelWords) =>
        /\ pending_transform = None
        /\ state = "idle"
        /\ CallsOf("execute_command") = <<>>
        /\ CallsOf("execute_query") = <<>>

\* "No" cancelled a pending transform
C5_Witness ==
    /\ AwaitingTurn
    /\ turn[1].msg = "No"
    /\ turn[1].pre.pending_transform # None
    /\ turn[1].response.kind = "cancelled"

\* C6: in the awaiting state a "show sql" or "sql" message leaves state,
\* pending transform, last result and last mentioned table as they were and
\* returns the SQL of the pending plan; as the session is unchanged, this
\* holds for each of any number of such messages in a row.
C6_ShowSqlChangesNothing ==
    (AwaitingTurn /\ said \in ShowSqlWords) =>
        /\ Session = turn[1].pre
        /\ ~turn[1].raised
        /\ turn[1].response =
              Resp("pending_sql", <<turn[1].pre.pending_transform[1].plan.sql>>)

\* "SQL" was answered with the SQL of a plan made after an earlier execution
C6_Witness ==
    /\ AwaitingTurn
    /\ turn[1].msg = "SQL"
    /\ turn[1].response.kind = "pending_sql"
    /\ last_result # None
    /\ last_mentioned_table # None

\* C7: in the awaiting state every message outside the confirm, cancel and
\* show sql vocabularies returns the fixed confirm-or-cancel prompt, makes no
\* backend or LLM call and leaves the state awaiting and the pending
\* transform unchanged.
C7_OtherMessagesPrompt ==
    (AwaitingTurn /\ said \notin ConfirmWords \cup CancelWords \cup ShowSqlWords) =>
        /\ ~turn[1].raised
        /\ turn[1].response = Resp("confirm_or_cancel", <<>>)
        /\ turn[1].calls = <<>>
        /\ state = "awaiting"
        /\ pending_transform = turn[1].pre.pending_transform

\* "show tables" met a pending transform and got the prompt
C7_Witness ==
    /\ AwaitingTurn
    /\ turn[1].msg = "show tables"
    /\ turn[1].response.kind = "confirm_or_cancel"
    /\ pending_transform # None

\* C8: while the state is awaiting the plan generator is not invoked and the
\* pending transform is neither replaced nor modified: a turn that began
\* awaiting makes no LLM call and ends with the same pending transform, or
\* with none when its message was a confirm or a cancel word.
C8_NoNewTransformWhileAwaiting ==
    AwaitingTurn =>
        /\ CallsOf("call_claude") = <<>>
        /\ \/ pending_transform = turn[1].pre.pending_transform
           \/ pending_transform = None /\ said \in ConfirmWords \cup CancelWords

\* a transform request met a pending transform, which stayed as it was
C8_Witness ==
    /\ AwaitingTurn
    /\ turn[1].msg = "Clean raw_customers, remove nulls"
    /\ pending_transform # None
    /\ pending_transform = turn[1].pre.pending_transform

\* the calls of execute_command and execute_query that raised in the last turn
FailedExecution ==
    SelectSeq(turn[1].calls, LAMBDA c : c.op \in {"execute_command", "execute_query"} /\ ~c.ok)

\* the error the backend of the last turn raises for the call c
BackendError(c) ==
    IF c.op = "execute_command" THEN execute_command(turn[1].db, c.arg).err
    ELSE execute_query(turn[1].db, c.arg).err

\* C9: when the command or the row-count query of a confirm turn raises, the
\* turn ends idle without a pending transform, the response carries the error
\* message of the backend, the command was called once and nothing was called
\* after the failure, and the last result is the one before the turn.
C9_FailedExecutionClears ==
    (AwaitingTurn /\ said \in ConfirmWords /\ FailedExecution # <<>>) =>
        /\ pending_transform = None
        /\ state = "idle"
        /\ ~turn[1].raised
        /\ turn[1].response = Resp("execution_failed", BackendError(FailedExecution[1]))
        /\ Len(CallsOf("execute_command")) = 1
        /\ Len(FailedExecution) = 1
        /\ turn[1].calls[Len(turn[1].calls)] = FailedExecution[1]
        /\ last_result = turn[1].pre.last_result

\* the count query of a confirm turn raised while an earlier result was recorded
C9_Witness ==
    /\ AwaitingTurn
    /\ said \in ConfirmWords
    /\ FailedExecution # <<>>
    /\ FailedExecution[1].op = "execute_query"
    /\ last_result # None

\* the last turn began idle and its message was classified as a transform request
TransformTurn ==
    /\ turn # None
    /\ turn[1].pre.state = "idle"
    /\ idle_route(turn[1].db, strip(turn[1].msg)).val = "transform"

\* the operation op raised in the last turn
Failed(op) == \E i \in DOMAIN turn[1].calls : turn[1].calls[i].op = op /\ ~turn[1].calls[i].ok

\* the LLM answered in the last turn and no plan could be read from its reply:
\* the reply holds no JSON record, or the record lacks what the plan requires
Unparsed ==
    /\ CallsOf("call_claude") # <<>>
    /\ turn[1].llm.reply # None
    /\ \/ parse_json_response(turn[1].llm.reply[1]).err # None
       \/ generate_transform_sql(turn[1].llm, turn[1].msg, <<>>, <<>>, "silver",
                                 catalog_name).err # None

\* C10: when the schema fetch, the sample fetch, the LLM call or the parsing
\* of the LLM reply fails in a transform request handled in idle, chat returns
\* an error response, the state stays idle, no pending transform is stored,
\* and nothing is retried: each of the three calls is made at most once and
\* the turn makes no call after the failure.
C10_FailedRequestStaysIdle ==
    (TransformTurn /\ (\/ Failed("get_table_schema")
                       \/ Failed("get_sample_data")
                       \/ Failed("call_claude")
                       \/ Unparsed)) =>
        /\ ~turn[1].raised
        /\ turn[1].response.kind = "error_processing"
        /\ state = "idle"
        /\ pending_transform = None
        /\ \A op \in {"get_table_schema", "get_sample_data", "call_claude"} :
              /\ Len(CallsOf(op)) <= 1
              /\ Failed(op) => turn[1].calls[Len(turn[1].calls)].op = op
        /\ Unparsed => turn[1].calls[Len(turn[1].calls)].op = "call_claude"

\* the LLM answered a transform request with text that holds no record
C10_Witness ==
    /\ TransformTurn
    /\ Unparsed
    /\ ~turn[1].llm.reply[1].parses
    /\ turn[1].response.kind = "error_processing"
    /\ last_mentioned_table # None

\* the request of the last turn as chat passes it to its handlers
turn_request == strip(turn[1].msg)

\* the (table, schema) pair the request of the last turn resolves to: the pair
\* _identify_table returns or, without one, the last mentioned table when the
\* request refers to it; None when neither applies
ResolvedSource ==
    IF identify_table(turn[1].db, turn_request).val # None
    THEN identify_table(turn[1].db, turn_request).val
    ELSE IF /\ turn[1].pre.last_mentioned_table # None
            /\ ContainsAny(lower(turn_request), transform_references)
         THEN turn[1].pre.last_mentioned_table
         ELSE None

\* the schema fetch, the sample fetch and the plan generation of the last turn
\* all succeeded
PlanGenerated ==
    /\ Succeeded(turn[1].calls, {"get_table_schema"})
    /\ Succeeded(turn[1].calls, {"get_sample_data"})
    /\ Succeeded(turn[1].calls, {"call_claude"})
    /\ ~Unparsed

\* the schema snapshot the backend of the last turn returns for the resolved source
FetchedSchema == get_table_schema(turn[1].db, ResolvedSource[1][1], ResolvedSource[1][2]).val

\* C11: a transform request handled in idle whose source table is resolved and
\* whose schema fetch, sample fetch and plan generation succeed ends the turn
\* awaiting confirmation, with a pending transform that holds the generated
\* plan, the resolved source as "schema.table", the fetched schema and the
\* text of the request, and with the last mentioned table equal to the
\* resolved (table, schema) pair.
C11_TransformRequestAwaits ==
    (TransformTurn /\ ResolvedSource # None /\ PlanGenerated) =>
        /\ state = "awaiting"
        /\ pending_transform # None
        /\ pending_transform[1].plan =
              generate_transform_sql(turn[1].llm, turn_request, FetchedSchema, <<>>,
                                     "silver", catalog_name).val
        /\ pending_transform[1].source_table =
              ResolvedSource[1][2] \o "." \o ResolvedSource[1][1]
        /\ pending_transform[1].source_schema = FetchedSchema
        /\ pending_transform[1].user_request = turn_request
        /\ last_mentioned_table = ResolvedSource

\* "Clean raw_customers, remove nulls" was sent in idle with raw_customers in
\* bronze and the plan of the LLM is shown for confirmation
C11_Witness ==
    /\ TransformTurn
    /\ turn[1].msg = "Clean raw_customers, remove nulls"
    /\ PlanGenerated
    /\ turn[1].response.kind = "plan"
    /\ state = "awaiting"
    /\ pending_transform[1].source_table = "bronze.raw_customers"
    /\ pending_transform[1].plan.sql = FullReply.data.v.sql
    /\ last_mentioned_table = Some(<<"raw_customers", "bronze">>)

\* the request of the last turn names no table the resolver finds and no
\* earlier table it could refer to
Unresolved == identify_table(turn[1].db, turn_request).err = None /\ ResolvedSource = None

IdleTurn ==
    /\ turn # None
    /\ turn[1].pre.state = "idle"
    /\ turn[1].pre.pending_transform = None

turn_route == idle_route(turn[1].db, turn_request).val

\* C14: a turn that began idle ends awaiting confirmation only when its
\* message was classified as a transform request, its table was resolved and
\* its plan generation succeeded; the commands help, show tables, describe and
\* status, the questions and the messages of unclear intent leave the state
\* idle without a pending transform.
C14_OnlyTransformLeavesIdle ==
    /\ (IdleTurn /\ state = "awaiting") =>
          TransformTurn /\ ResolvedSource # None /\ PlanGenerated
    /\ (IdleTurn /\ turn_route # "transform") =>
          state = "idle" /\ pending_transform = None

\* a question about raw_customers was answered: the table it names was
\* recorded and the session stayed idle
C14_Witness ==
    /\ IdleTurn
    /\ turn[1].msg = "What columns are in raw_customers?"
    /\ turn_route = "question"
    /\ turn[1].response.kind = "columns"
    /\ last_mentioned_table # turn[1].pre.last_mentioned_table
    /\ state = "idle"

\* the last turn began idle and its message was a describe command
DescribeTurn ==
    /\ turn # None
    /\ turn[1].pre.state = "idle"
    /\ turn_route = "describe"

\* the parts of the reference the describe command of the last turn names
DescribedParts == reference_parts(describe_argument(turn_request))

\* that reference is a schema.table pair the backend does not hold, or a bare
\* name that is a table of none of the schemas bronze, silver and gold
UnknownReference ==
    \/ /\ Len(DescribedParts) = 2
       /\ ~TableKnown(turn[1].db, DescribedParts[2], DescribedParts[1])
    \/ /\ Len(DescribedParts) = 1
       /\ \A k \in DOMAIN Schemas : ~TableKnown(turn[1].db, DescribedParts[1], Schemas[k])

\* C15: a describe command whose dotted reference or bare table name resolves
\* to no known table is reported as an error (an error response, or an
\* exception the interface reports) and leaves the session unchanged: state,
\* pending transform, last result and last mentioned table are those before
\* the turn.
C15_UnknownDescribeChangesNothing ==
    (DescribeTurn /\ UnknownReference) =>
        /\ \/ turn[1].raised
           \/ turn[1].response.kind \in {"error_describe", "table_not_found"}
        /\ Session = turn[1].pre

\* C16: each conversation acts on its own session: a message of one
\* conversation never meets the session state another conversation left, so
\* a turn that begins with a transform pending belongs to the conversation
\* whose request stored that transform, and no other conversation's message
\* confirms or cancels it.
C16_ConversationsOwnSessions ==
    (turn # None /\ turn[1].pre.pending_transform # None) =>
        turn[1].owner = Some(turn[1].conversation)

\* a call of the function op on its own has returned or raised
Called(op) == returned # None /\ returned[1].op = op

\* C18: table resolution is never fatal: for every message and every pattern
\* of failing backend lookups _identify_table returns, either a (table,
\* schema) pair of a table the backend holds or (None, None); it never raises.
C18_ResolveNeverRaises ==
    Called("identify_table") =>
        /\ returned[1].out.err = None
        /\ \/ returned[1].out.val = None
           \/ TableKnown(given[1].db, returned[1].out.val[1][1], returned[1].out.val[1][2])

\* the positions in bronze, silver, gold of the schemas that can be listed and
\* hold a table matching the message given to _identify_table
MatchingSchemas ==
    {k \in DOMAIN Schemas :
        /\ Schemas[k] \in DOMAIN given[1].db.tables
        /\ Schemas[k] \notin given[1].db.down
        /\ \E i \in DOMAIN given[1].db.tables[Schemas[k]] :
              table_matches(given[1].db.tables[Schemas[k]][i], lower(given[1].message))}

\* the first of them
FirstMatchingSchema == CHOOSE k \in MatchingSchemas : \A j \in MatchingSchemas : k <= j

\* C19: when tables of more than one of the schemas bronze, silver and gold
\* match the message, by their name or by their name without raw_ and stg_,
\* _identify_table returns a matching table of the first such schema in the
\* order bronze, silver, gold.
C19_FirstSchemaWins ==
    (Called("identify_table") /\ Cardinality(MatchingSchemas) >= 2) =>
        /\ returned[1].out.err = None
        /\ returned[1].out.val # None
        /\ returned[1].out.val[1][2] = Schemas[FirstMatchingSchema]
        /\ table_matches(returned[1].out.val[1][1], lower(given[1].message))
        /\ TableKnown(given[1].db, returned[1].out.val[1][1], Schemas[FirstMatchingSchema])

\* raw_customers is a table of bronze and of silver; the message "raw_customers"
\* names no schema and resolves to the bronze table
C19_Witness ==
    /\ Called("identify_table")
    /\ given[1].message = "raw_customers"
    /\ TableKnown(given[1].db, "raw_customers", "bronze")
    /\ TableKnown(given[1].db, "raw_customers", "silver")
    /\ MatchingSchemas = {1, 2}
    /\ returned[1].out.val = Some(<<"raw_customers", "bronze">>)

\* the message given to _detect_intent, lower-cased as the patterns see it
given_lower == lower(given[1].message)

\* C20: for every message that matches a question pattern _detect_intent
\* returns QUESTION, also when the message matches a transform pattern or
\* names a known table together with an action word; the transform patterns
\* and the table lookup are consulted only when no question pattern matches,
\* so the backend is not asked.
C20_QuestionPatternsFirst ==
    (Called("detect_intent") /\ AnyTrue(question_patterns(given_lower))) =>
        returned[1].out = Ok("question", <<>>)

\* "how do i clean raw_customers?" matches question patterns and the transform
\* pattern clean\s, names a known table and has an action word: a question
C20_Witness ==
    /\ Called("detect_intent")
    /\ given[1].message = "how do i clean raw_customers?"
    /\ question_patterns(given_lower)[3]
    /\ question_patterns(given_lower)[11]
    /\ transform_patterns(given_lower)[1]
    /\ TableKnown(given[1].db, "raw_customers", "bronze")
    /\ ContainsAny(given_lower, action_words)
    /\ returned[1].out.val = "question"

\* the text given to _determine_target_layer, in lower case
request_text == str_lower(given[1].message)

\* the layer the policy names for a request text and a source schema
LayerOf(text, source_schema) ==
    IF Contains(text, "gold") THEN "gold"
    ELSE IF Contains(text, "silver") THEN "silver"
    ELSE IF \E word \in {"aggregate", "summary", "report", "metrics"} : Contains(text, word)
         THEN "gold"
    ELSE IF source_schema = "bronze" THEN "silver"
    ELSE IF source_schema = "silver" THEN "gold"
    ELSE "silver"

\* C21: _determine_target_layer is a function of the request text and the
\* source schema only, whatever the backend holds and answers: gold if the
\* text contains "gold"; otherwise silver if it contains "silver"; otherwise
\* gold if it contains aggregate, summary, report or metrics; otherwise silver
\* for a bronze source, gold for a silver source and silver for any other.
C21_TargetLayerPolicy ==
    Called("determine_target_layer") =>
        returned[1].out = LayerOf(request_text, given[1].source_schema)

\* "summary of silver into Gold" from a bronze source goes to gold although
\* the text names silver and the source alone would give silver
C21_Witness ==
    /\ Called("determine_target_layer")
    /\ given[1].message = "summary of silver into Gold"
    /\ given[1].source_schema = "bronze"
    /\ given[1].db.down = {"bronze", "silver", "gold"}
    /\ returned[1].out = "gold"

\* a three-part dotted name catalog.schema.table
ThreePart(name) ==
    /\ Len(split(name, ".")) = 3
    /\ \A i \in 1..3 : split(name, ".")[i] # ""

\* C22: every plan the plan generator returns, and so every plan held in
\* pending_transform, has a non-empty sql and a target_table that is a
\* three-part dotted name catalog.schema.table; a reply of the LLM that breaks
\* either condition yields no plan.
C22_PlansWellFormed ==
    pending_transform # None =>
        /\ pending_transform[1].plan.sql # ""
        /\ ThreePart(pending_transform[1].plan.target_table)

\* the reply given to generate_transform_sql and what the call returned or raised
generated_reply == returned[1].out.reply

generated == returned[1].out.result

\* the reply parses as a record that holds both required fields
HoldsRequired(reply) ==
    /\ reply.parses
    /\ reply.data.t = "object"
    /\ {"target_table", "sql"} \subseteq DOMAIN reply.data.v

\* the field of the plan is the reply's, or the default when the reply lacks it
FromReply(fields, key, value, default) ==
    value = (IF key \in DOMAIN fields THEN fields[key] ELSE default)

\* C23: generate_transform_sql returns a plan only when the reply of the LLM
\* parses as a record that holds both target_table and sql, and the plan then
\* carries the reply's values of the two; a reply that does not parse or lacks
\* one of them raises an error.  Optional fields the reply lacks default to the
\* empty list (transformations_applied), the empty text (explanation) and None
\* (estimated_rows_after, columns_modified).
C23_RequiredFieldsOrError ==
    (Called("generate_transform_sql") /\ generated_reply # None) =>
        /\ ~HoldsRequired(generated_reply[1]) => generated.err # None
        /\ generated.err = None =>
              /\ generated.val.target_table = generated_reply[1].data.v["target_table"]
              /\ generated.val.sql = generated_reply[1].data.v["sql"]
              /\ FromReply(generated_reply[1].data.v, "transformations_applied",
                           generated.val.transformations_applied, JList(<<>>))
              /\ FromReply(generated_reply[1].data.v, "explanation",
                           generated.val.explanation, JStr(""))
              /\ IF "estimated_impact" \in DOMAIN generated_reply[1].data.v
                 THEN /\ FromReply(generated_reply[1].data.v["estimated_impact"].v,
                                   "estimated_rows_after", generated.val.estimated_rows_after, JNull)
                      /\ FromReply(generated_reply[1].data.v["estimated_impact"].v,
                                   "columns_modified", generated.val.columns_modified, JNull)
                 ELSE /\ generated.val.estimated_rows_after = JNull
                      /\ generated.val.columns_modified = JNull

\* the reply with the two required fields only gives a plan with the defaults
C23_Witness ==
    /\ Called("generate_transform_sql")
    /\ generated_reply = Some(MinimalReply)
    /\ generated.err = None
    /\ generated.val.sql = MinimalReply.data.v.sql
    /\ generated.val.transformations_applied = JList(<<>>)
    /\ generated.val.explanation = JStr("")
    /\ generated.val.estimated_rows_after = JNull

C25_MentionedTableKept ==
    (turn # None /\ turn[1].pre.last_mentioned_table # None) =>
        /\ last_mentioned_table # None
        /\ Len(last_mentioned_table[1]) = 2

\* a cancel in a session that had mentioned a table, which is still mentioned
C25_Witness ==
    /\ AwaitingTurn
    /\ said \in CancelWords
    /\ turn[1].response.kind = "cancelled"
    /\ turn[1].pre.last_mentioned_table # None
    /\ last_mentioned_table = turn[1].pre.last_mentioned_table

\* what _identify_table returns for the request of the last turn
ResolvedFromText == identify_table(turn[1].db, turn_request)

\* C29: whenever a turn handled in idle as a question, a transform request or
\* a message of unclear intent resolves a table from the text of the message,
\* last_mentioned_table is that (table, schema) pair after the turn, whichever
\* branch answers and whether or not later backend calls of the turn fail.
C29_ResolvedTableRemembered ==
    (/\ turn # None
     /\ turn[1].pre.state = "idle"
     /\ ResolvedFromText.err = None
     /\ ResolvedFromText.val # None
     /\ turn_route \in {"question", "transform", "unclear"}) =>
        last_mentioned_table = ResolvedFromText.val

\* C26: last_result is the record of the most recently executed transform:
\* once the SQL command of a confirmed plan has run on the backend,
\* last_result is present and its target table is that of the plan -- stated
\* for the turn that ran the command; the turns that run none would have to
\* leave last_result as it is.
C26_LastResultIsLatestExecuted ==
    /\ (turn # None /\ Succeeded(turn[1].calls, {"execute_command"})) =>
          /\ last_result # None
          /\ last_result[1].target_table = turn[1].pre.pending_transform[1].plan.target_table
    /\ (turn # None /\ ~Succeeded(turn[1].calls, {"execute_command"})) =>
          last_result = turn[1].pre.last_result

\* the intent of a message as its text and the known tables decide it
IntentOf(db, message) ==
    IF AnyTrue(question_patterns(str_lower(message))) THEN "question"
    ELSE IF AnyTrue(transform_patterns(str_lower(message))) THEN "transform"
    ELSE IF /\ identify_table(db, message).val # None
            /\ \E word \in action_words : Contains(str_lower(message), word)
         THEN "transform"
         ELSE "unclear"

\* the message matches no pattern, so that _detect_intent asks the resolver
Unmatched(message) ==
    /\ ~AnyTrue(question_patterns(str_lower(message)))
    /\ ~AnyTrue(transform_patterns(str_lower(message)))

\* C27: _detect_intent is a pure function of the message with respect to the
\* session: in a fresh session, in one that has mentioned a table, in one
\* that awaits a confirmation and in one that has executed a transform alike,
\* its outcome is the one the text of the message and the known tables
\* decide, and state, pending_transform, last_result and last_mentioned_table
\* are after the call what they were before it.
C27_ClassifyIgnoresSession ==
    Called("detect_intent") =>
        /\ Session = returned[1].session
        /\ returned[1].out.err =
              (IF Unmatched(given[1].message)
               THEN identify_table(given[1].db, given[1].message).err ELSE None)
        /\ returned[1].out.err = None =>
              returned[1].out.val = IntentOf(given[1].db, given[1].message)

\* "fix it now" names no table: unclear, also in a session that awaits the
\* confirmation of a plan for the table it mentioned
C27_Witness ==
    /\ Called("detect_intent")
    /\ given[1].message = "fix it now"
    /\ state = "awaiting"
    /\ pending_transform # None
    /\ last_mentioned_table = Some(<<"raw_customers", "bronze">>)
    /\ returned[1].out.val = "unclear"

\* C28: the session has no terminal and no stuck state.  Between two turns a
\* next message is accepted, and in idle one of the messages begins a
\* transform; a message that was taken is answered, by a response or by the
\* error app.chat makes of an exception, and leaves the session idle or
\* awaiting, where the next message is accepted again; and a single confirm
\* or cancel word met in the awaiting state leaves the session idle without a
\* pending transform.
C28_NeverStuck ==
    /\ turn = None => ENABLED Chat
    /\ (turn = None /\ state = "idle") => ENABLED (Chat /\ state' = "awaiting")
    /\ turn # None =>
          /\ ENABLED Respond
          /\ turn[1].response.kind # ""
          /\ state \in {"idle", "awaiting"}
    /\ (AwaitingTurn /\ said \in ConfirmWords \cup CancelWords) =>
          /\ state = "idle"
          /\ pending_transform = None

\* a confirm whose count query failed after an earlier transform was recorded:
\* the session is idle again and the turn was answered with the failure
C28_Witness ==
    /\ AwaitingTurn
    /\ said \in ConfirmWords
    /\ Failed("execute_query")
    /\ turn[1].response.kind = "execution_failed"
    /\ turn[1].pre.last_result # None
    /\ state = "idle"

\* C30: a message that matches no question pattern and no transform pattern
\* is classified as a transform request exactly when _identify_table finds a
\* known table in it and it contains one of the words fix, update, change,
\* modify, process; every other such message is of unclear intent, whatever
\* its number of words.
C30_UnmatchedNeedsTableAndWord ==
    (Called("detect_intent") /\ Unmatched(given[1].message)) =>
        /\ returned[1].out.err = None
        /\ returned[1].out.val =
              (IF /\ identify_table(given[1].db, given[1].message).val # None
                  /\ \E word \in {"fix", "update", "change", "modify", "process"} :
                        Contains(str_lower(given[1].message), word)
               THEN "transform"
               ELSE "unclear")

\* the calls _identify_table made: the listings of its loop, at most one per
\* schema of bronze, silver, gold, and after them the lookup of the explicit
\* schema.table reference
resolve_calls == returned[1].out.calls

LookedUp == Len(resolve_calls) > Len(Schemas)

\* the backend listed the table in the schema during the call
ListedDuringCall(table, schema) ==
    /\ \E i \in DOMAIN resolve_calls : resolve_calls[i] = Call("list_tables", schema, TRUE)
    /\ TableKnown(given[1].db, table, schema)

\* C31: _identify_table looks up an explicit schema.table reference only when
\* no table listed in bronze, silver or gold matched the message, and returns
\* it only if the lookup finds the table in that schema; every (table, schema)
\* pair it returns names a table the backend listed in that schema during the
\* call, and otherwise it returns (None, None).
C31_DottedReferenceLast ==
    Called("identify_table") =>
        /\ LookedUp =>
              /\ MatchingSchemas = {}
              /\ dotted_reference(given[1].message) # None
              /\ resolve_calls[Len(resolve_calls)].arg = dotted_reference(given[1].message)[1][1]
        /\ returned[1].out.val # None =>
              ListedDuringCall(returned[1].out.val[1][1], returned[1].out.val[1][2])
        /\ returned[1].out.val = None => returned[1].out.err = None

\* the last turn fetched the schema of the table of this (table, schema) pair
\* as the source of its transform
UsedAsSource(ref) ==
    \E i \in DOMAIN turn[1].calls :
        /\ turn[1].calls[i].op = "get_table_schema"
        /\ turn[1].calls[i].arg = ref[1][2] \o "." \o ref[1][1]

\* the request of the last turn refers to an earlier table: it contains
\* "this table", "that table" or "it"
Anaphoric ==
    \E word \in {"this table", "that table", "it"} : Contains(str_lower(turn_request), word)

\* C32: a transform request whose text names no table takes the last
\* mentioned table as its source exactly when one is set and the text
\* contains "this table", "that table" or "it"; otherwise no source is
\* resolved and the agent asks for the table.  A table named in the text is
\* the source whatever the last mentioned table is.
C32_AnaphoraFallsBack ==
    (TransformTurn /\ identify_table(turn[1].db, turn_request).err = None) =>
        IF identify_table(turn[1].db, turn_request).val # None
        THEN UsedAsSource(identify_table(turn[1].db, turn_request).val)
        ELSE IF turn[1].pre.last_mentioned_table # None /\ Anaphoric
        THEN UsedAsSource(turn[1].pre.last_mentioned_table)
        ELSE /\ turn[1].response.kind \in {"clarify_table", "no_tables"}
             /\ ~Made(turn[1], {"get_table_schema"})

\* the positions of the calls of op in the last turn
PositionsOf(op) == {i \in DOMAIN turn[1].calls : turn[1].calls[i].op = op}

\* the last turn fetched the schema and then the sample rows of this (table,
\* schema) pair, both returned, and every call of the LLM came after them
FetchedBeforeLlm(ref) ==
    \E i \in DOMAIN turn[1].calls : \E j \in DOMAIN turn[1].calls :
        /\ turn[1].calls[i] = Call("get_table_schema", ref[1][2] \o "." \o ref[1][1], TRUE)
        /\ turn[1].calls[j] = Call("get_sample_data", ref[1][2] \o "." \o ref[1][1], TRUE)
        /\ i < j
        /\ \A k \in PositionsOf("call_claude") : j < k

\* C33: a turn calls the LLM at most once, and only a turn that begins idle,
\* is classified as a transform request and resolves a source table, after
\* the schema and the sample rows of that table were both fetched; questions,
\* commands and the messages of a turn that begins awaiting confirmation
\* never call it.
C33_LlmOnlyForFetchedSource ==
    turn # None =>
        /\ Cardinality(PositionsOf("call_claude")) <= 1
        /\ PositionsOf("call_claude") # {} =>
              /\ turn[1].pre.state = "idle"
              /\ TransformTurn
              /\ ResolvedSource # None
              /\ FetchedBeforeLlm(ResolvedSource)

\* a request for raw_customers whose fetches succeed reaches the LLM once
C33_Witness ==
    /\ TransformTurn
    /\ turn[1].msg = "Clean raw_customers, remove nulls"
    /\ Cardinality(PositionsOf("call_claude")) = 1
    /\ FetchedBeforeLlm(Some(<<"raw_customers", "bronze">>))
    /\ state = "awaiting"

\* the last turn began idle with the command that lists the tables
ShowTablesTurn ==
    /\ turn # None
    /\ turn[1].pre.state = "idle"
    /\ str_lower(str_strip(turn[1].msg)) \in {"show tables", "list tables", "tables"}

\* the tables the backend of the last turn lists in a schema; none when the
\* listing fails
ListedIn(schema) ==
    IF schema \in DOMAIN turn[1].db.tables /\ schema \notin turn[1].db.down
    THEN turn[1].db.tables[schema]
    ELSE <<>>

\* the section of a schema in the listing: nothing for a schema without
\* tables; otherwise its heading, the "schema.table" name of each table in the
\* order of the backend, and an empty line
SectionOf(schema) ==
    IF ListedIn(schema) = <<>> THEN <<>>
    ELSE <<"### " \o str_upper(schema)>>
         \o [i \in DOMAIN ListedIn(schema) |-> schema \o "." \o ListedIn(schema)[i]]
         \o <<"">>

\* a line of the listing shows this text, alone or followed by a row count
Shows(line, text) == line = text \/ startswith(line, text \o " (")

\* C34: show tables, list tables and tables in idle answer with the tables
\* the backend lists in bronze, in silver and in gold, in that order and each
\* under the heading of its schema; a schema without tables has no section, a
\* schema whose listing fails is skipped and the others are still listed, a
\* table whose row count cannot be read is listed without it, and the command
\* never raises.
C34_ShowTablesListsAll ==
    ShowTablesTurn =>
        /\ ~turn[1].raised
        /\ turn[1].response.kind = "tables"
        /\ Len(turn[1].response.detail)
              = Len(SectionOf("bronze") \o SectionOf("silver") \o SectionOf("gold"))
        /\ \A i \in DOMAIN turn[1].response.detail :
              Shows(turn[1].response.detail[i],
                    (SectionOf("bronze") \o SectionOf("silver") \o SectionOf("gold"))[i])

\* bronze cannot be listed and no row count can be read: silver and gold are
\* listed, their tables without a count
C34_Witness ==
    /\ ShowTablesTurn
    /\ turn[1].db.down = {"bronze"}
    /\ turn[1].db.fetch = "schema_fail"
    /\ turn[1].response.detail
          = <<"### SILVER", "silver.raw_customers", "", "### GOLD", "gold.sales_summary", "">>

\* the positions in bronze, silver, gold of the schemas that hold the table
\* the describe command of the last turn names
HoldingSchemas ==
    {k \in DOMAIN Schemas : TableKnown(turn[1].db, DescribedParts[1], Schemas[k])}

\* the number of schemas a probe in the order bronze, silver, gold visits
\* until it finds the table
ProbedSchemas ==
    IF HoldingSchemas = {} THEN Len(Schemas)
    ELSE CHOOSE k \in HoldingSchemas : \A j \in HoldingSchemas : k <= j

\* C35: describe with a bare table name probes bronze, then silver, then
\* gold for the table and describes it in the first schema that holds it;
\* describe with a dotted schema.table reference probes nothing and describes
\* exactly that table of that schema.  (A probe that fails on the backend
\* ends the turn with an exception; the statement is about the turns whose
\* probes are answered.)
C35_DescribeInfersSchema ==
    (DescribeTurn /\ ~turn[1].raised) =>
        /\ Len(DescribedParts) = 1 =>
              /\ Cardinality(PositionsOf("list_tables")) = ProbedSchemas
              /\ \A k \in 1..ProbedSchemas :
                    turn[1].calls[k] = Call("list_tables", Schemas[k], TRUE)
              /\ HoldingSchemas # {} =>
                    UsedAsSource(Some(<<DescribedParts[1], Schemas[ProbedSchemas]>>))
              /\ HoldingSchemas = {} => PositionsOf("get_table_schema") = {}
        /\ Len(DescribedParts) = 2 =>
              /\ PositionsOf("list_tables") = {}
              /\ Cardinality(PositionsOf("get_table_schema")) = 1
              /\ UsedAsSource(Some(<<DescribedParts[2], DescribedParts[1]>>))

\* sales_summary is a table of gold only: the third probe finds it
C35_Witness ==
    /\ DescribeTurn
    /\ turn[1].msg = "Describe sales_summary"
    /\ ProbedSchemas = 3
    /\ turn[1].response = Resp("describe", <<"main.gold.sales_summary", "1500">>)

\* raw_customers is a table of bronze and of silver: the dotted reference
\* silver.raw_customers is described in silver, without a probe
C35_WitnessDotted ==
    /\ DescribeTurn
    /\ turn[1].msg = "describe silver.raw_customers"
    /\ TableKnown(turn[1].db, "raw_customers", "bronze")
    /\ PositionsOf("list_tables") = {}
    /\ turn[1].response = Resp("describe", <<"main.silver.raw_customers", "1500">>)

\* C36: for every reply made of optional commentary, one valid record, bare or
\* inside a code fence, and optional commentary after it,
\* _parse_json_response returns exactly that record: the commentary is
\* stripped and causes no parse error.
C36_CommentaryStripped ==
    Called("parse_json_response") =>
        /\ returned[1].out.err = None
        /\ returned[1].out.val = Records[given[1].record].data

\* the plan that was pending when the last turn began
plan_before == turn[1].pre.pending_transform[1].plan

\* what the last turn shows, stores and runs is the SQL of one plan
SqlOfThePlan ==
    turn # None =>
        \* the plan shown for confirmation is the plan stored, as the LLM gave it
        /\ turn[1].response.kind = "plan" =>
              /\ pending_transform # None
              /\ turn[1].response.detail[3] = pending_transform[1].plan.sql
              /\ pending_transform[1].plan.sql = turn[1].llm.reply[1].data.v.sql
              /\ pending_transform[1].plan.target_table = turn[1].llm.reply[1].data.v.target_table
        \* show sql shows the SQL of the pending plan
        /\ (AwaitingTurn /\ said \in ShowSqlWords) =>
              turn[1].response = Resp("pending_sql", <<plan_before.sql>>)
        \* the command run is that SQL, and the rows counted are those of its target
        /\ \A i \in PositionsOf("execute_command") :
              /\ AwaitingTurn
              /\ said \in ConfirmWords
              /\ turn[1].calls[i].arg = plan_before.sql
        /\ \A i \in PositionsOf("execute_query") :
              /\ PositionsOf("execute_command") # {}
              /\ turn[1].calls[i].arg = "SELECT COUNT(*) FROM " \o plan_before.target_table

\* C37: the SQL run on confirm is the sql of the plan stored in
\* pending_transform when the plan was generated, which is the SQL shown with
\* the plan and by show sql; while the plan is pending no step replaces or
\* alters it, and the rows are counted in the target_table of that plan.
C37_StoredSqlIsRun ==
    /\ []SqlOfThePlan
    /\ [][(pending_transform # None /\ pending_transform' # None)
            => pending_transform' = pending_transform]_vars

\* a confirm has run the SQL of the plan made from the full reply and counted
\* the rows of that plan's target
C37_Witness ==
    /\ AwaitingTurn
    /\ said \in ConfirmWords
    /\ turn[1].calls =
          <<Call("execute_command", plan_before.sql, TRUE),
            Call("execute_query", "SELECT COUNT(*) FROM " \o plan_before.target_table, TRUE)>>
    /\ plan_before.sql = FullReply.data.v.sql
    /\ last_result # None
    /\ last_result[1].sql_executed = FullReply.data.v.sql
    /\ last_result[1].target_table = FullReply.data.v.target_table

\* C38: when TransformAgent.chat raises instead of returning a response --
\* the lookup of a dotted reference or the probe of a bare describe target
\* failed on the backend -- state, pending_transform, last_result and
\* last_mentioned_table are those before the turn, and app.chat answers with
\* an error text made of the exception.
C38_RaisingTurnChangesNothing ==
    (turn # None /\ turn[1].raised) =>
        /\ Session = turn[1].pre
        /\ turn[1].answer = Resp("error", turn[1].response.detail)

\* after raw_customers was mentioned, the probe of a describe fails on bronze
C38_Witness ==
    /\ DescribeTurn
    /\ turn[1].raised
    /\ turn[1].pre.last_mentioned_table = Some(<<"raw_customers", "bronze">>)
    /\ turn[1].msg = "Describe sales_summary"
    /\ turn[1].answer.kind = "error"
    /\ last_mentioned_table = Some(<<"raw_customers", "bronze">>)

\* C39: last_result is written only by a confirm turn in which the command of
\* the plan and the row-count query both succeed; when present its success
\* flag is true; no other turn -- cancel, show sql, a failed execution, a
\* message handled in idle -- changes it.
C39_LastResultOnlyOnSuccess ==
    /\ last_result # None => last_result[1].success = TRUE
    /\ (turn # None /\ last_result # turn[1].pre.last_result) =>
          /\ AwaitingTurn
          /\ said \in ConfirmWords
          /\ turn[1].calls =
                <<Call("execute_command", plan_before.sql, TRUE),
                  Call("execute_query", "SELECT COUNT(*) FROM " \o plan_before.target_table, TRUE)>>
          /\ last_result # None
          /\ last_result[1].target_table = plan_before.target_table
    /\ (turn # None /\ FailedExecution # <<>>) => last_result = turn[1].pre.last_result

\* a second transform is confirmed and its count query fails: the result of
\* the first, successful one stays
C39_Witness ==
    /\ AwaitingTurn
    /\ said \in ConfirmWords
    /\ Failed("execute_query")
    /\ turn[1].pre.last_result # None
    /\ last_result = turn[1].pre.last_result
    /\ last_result[1].success = TRUE
    /\ last_result[1].target_table # plan_before.target_table

====
